---------------------------- MODULE Spec2Model ----------------------------
(* Model of the broker execution gateway, MT5Broker                        *)
(* (tradingagents/broker_interface/mt5_broker.py).                         *)
(*                                                                         *)
(* Every public method of the gateway is one action.  The venue library    *)
(* (the mt5 module) is an unreliable collaborator: each call to it         *)
(* answers with a value, with None, or raises, and the answer is drawn     *)
(* with \E inside the action.  The variable last records the most recent   *)
(* call: the operation, its argument, the answer of every venue call it    *)
(* made, whether it returned or let an exception escape, and the value it  *)
(* returned.                                                               *)
(*                                                                         *)
(* Units: prices are integers in 1e-5 price units, volumes are integers    *)
(* in 0.001 lot.  A dict key that is absent is Absent, a key present with  *)
(* the value None is PyNone.                                               *)
EXTENDS Integers, Sequences, FiniteSets, TLC

VARIABLES
    mt5_available,             \* MT5Broker.mt5_available
    connected,                 \* MT5Broker._connected
    credentials,               \* MT5Broker.credentials
    simulated_open_positions,  \* MT5Broker.simulated_open_positions
    last,                      \* the most recent call and what it returned
    scenario,                  \* history: progress of the run "a connect that
                               \* fails, a market buy, a quote" since __init__
    decision,                  \* the ForexFinalDecision handed to the approval gate
    now,                       \* the clock, in minutes
    approving,                 \* the actor whose approve has set the status and
                               \* has not yet called the gateway
    order_result,              \* the gateway's answer attached to the decision
    gateway_invocations,       \* place_order calls made for the decision
    gate_last,                 \* the most recent call of the approval gate
    threads                    \* the order operation each caller is inside

gateway_vars == <<mt5_available, connected, credentials, simulated_open_positions,
                  last, scenario>>

gate_vars == <<decision, now, approving, order_result, gateway_invocations,
               gate_last>>

vars == <<mt5_available, connected, credentials, simulated_open_positions, last,
          scenario, decision, now, approving, order_result, gateway_invocations,
          gate_last, threads>>

----------------------------------------------------------------------------
(* Bounds and input domains                                                *)

\* Most positions the simulated registry holds in the model.
MaxPositions == 1

Absent == -1
PyNone == -2

\* str(uuid.uuid4())[:8] draws from 16^8 values; the model draws from two.
Uuids == {1, 2}
\* Tickets the venue hands out (result.order, position.ticket).
Tickets == {5001}

Pairs == {"EURUSD", "USDJPY"}
NoPair == "ABSENT"

\* The order requests the model submits.  size 30 = 0.03 lot, 107500 = 1.07500.
Req(type, side, pair, size, price, sl, tp) ==
    [type |-> type, side |-> side, pair |-> pair, size |-> size,
     price |-> price, sl |-> sl, tp |-> tp]

OrderRequests ==
    { Req("market", "buy", "EURUSD", 30, Absent, 107500, 109000),
      Req("market", "sell", "USDJPY", 10, Absent, Absent, Absent),
      Req("limit", "buy", "EURUSD", 30, 108000, 107500, 109000),
      Req("stop", "sell", "USDJPY", 10, Absent, Absent, Absent),
      Req("trailing", "buy", "EURUSD", 30, 108000, 107500, 109000),
      Req("market", "buy", NoPair, 10, Absent, Absent, Absent),
      Req("limit", "buy", NoPair, 10, 108000, Absent, Absent) }

\* Credentials passed to connect: login, password, server; "" is a missing
\* or empty field, "abc" a login that int() rejects.
Cred(login, password, server) ==
    [login |-> login, password |-> password, server |-> server]

CredentialInputs ==
    { Cred("1001", "pw", "srv"), Cred("", "pw", "srv"), Cred("1001", "", "srv"), Cred("1001", "pw", ""),
      Cred("abc", "pw", "srv") }
EmptyCredentials == Cred("", "", "")

\* Order ids are strings in the program: "sim_ord_<hex>", "sim_pos_<hex>",
\* or the decimal form of a venue ticket.
SimOrdId(u) == [tag |-> "sim_ord", n |-> u]
SimPosId(u) == [tag |-> "sim_pos", n |-> u]
TicketId(t) == [tag |-> "ticket", n |-> t]
NoId == [tag |-> "none", n |-> 0]

\* int(order_id): only the decimal form of a ticket parses.
IsIntString(id) == id.tag = "ticket"

\* int(login_val)
LoginParses(l) == l = "1001"

\* The request dict modify_order hands to order_send: its action and the
\* keys sl, tp and price, Absent for a key the dict does not hold.
Request(action, sl, tp, price) == [action |-> action, sl |-> sl, tp |-> tp, price |-> price]
NoRequest == Request(Absent, Absent, Absent, Absent)

\* The answers of the venue calls of one operation; "-" is a call not made,
\* and modify_request is the request of a modification that was submitted.
NoCalls ==
    [initialize |-> "-", login |-> "-", shutdown |-> "-", cleanup |-> "-",
     symbol_info |-> "-", symbol_select |-> "-", symbol_info2 |-> "-",
     tick |-> "-", positions_get |-> "-", orders_get |-> "-", order_send |-> "-",
     retcode |-> Absent, account_info |-> "-", modify_request |-> NoRequest]

NoArg == [none |-> TRUE]
NoRet == [none |-> TRUE]

Call(op, arg, calls, raised, ret) ==
    [op |-> op, arg |-> arg, calls |-> calls, raised |-> raised, ret |-> ret]

----------------------------------------------------------------------------
(* __init__                                                                *)

\* No decision has been handed over, no gate call made.
NoDecision == [status |-> "NONE"]
NoUser == "None"
NoGateCall == [op |-> "none", actor |-> NoUser, ok |-> FALSE]

\* The callers of the gateway, and a caller that is inside no operation.
Threads == {1, 2}
Idle == [pc |-> "idle", op |-> "none", arg |-> NoArg, route |-> "none",
         seen_credentials |-> EmptyCredentials, seen_positions |-> <<>>]
NoThreads == [t \in Threads |-> Idle]

GateIdle ==
    /\ decision = NoDecision
    /\ now = 0
    /\ approving = NoUser
    /\ order_result = NoRet
    /\ gateway_invocations = 0
    /\ gate_last = NoGateCall

Init ==
    /\ mt5_available \in BOOLEAN
    /\ connected = FALSE
    /\ credentials = EmptyCredentials
    /\ simulated_open_positions = <<>>
    /\ last = Call("init", NoArg, NoCalls, FALSE, NoRet)
    /\ scenario = 0
    /\ GateIdle
    /\ threads = NoThreads

----------------------------------------------------------------------------
(* connect / disconnect                                                    *)

\* What one call does: the fields it leaves in the object, the venue calls
\* it made, whether an exception escaped it, and the value it returned.
\* Each method below is the set of the outcomes it can have in the current
\* state, one for every way the venue can answer the calls it makes.
Outcome(conn, creds, positions, calls, raised, ret) ==
    [connected |-> conn, credentials |-> creds, positions |-> positions,
     calls |-> calls, raised |-> raised, ret |-> ret]

\* The except handler of connect (lines 84-87): both fields are cleared,
\* then terminal_info() and shutdown() run outside any try ("ok": they
\* returned, "raise": one of them raised).
connect_except(calls) ==
    { Outcome(FALSE, EmptyCredentials, simulated_open_positions,
              [calls EXCEPT !.cleanup = x], x = "raise",
              IF x = "raise" THEN NoRet ELSE [success |-> FALSE]) :
        x \in {"ok", "raise"} }

\* connect_refused without the reset of self.credentials.
connect_refused_keeps_credentials(c, calls) ==
    Outcome(FALSE, c, simulated_open_positions, calls, FALSE, [success |-> FALSE])

\* Lines 78 and 82: initialize() or login() returned False.
connect_refused(c, calls) ==
    Outcome(FALSE, EmptyCredentials, simulated_open_positions, calls, FALSE,
            [success |-> FALSE])

\* connect_success without the assignment of self.credentials.
connect_success_drops_credentials(c, calls) ==
    Outcome(TRUE, credentials, simulated_open_positions, calls, FALSE,
            [success |-> TRUE])

\* Lines 73 and 83: the credentials are kept and the session is open.
connect_success(c, calls) ==
    Outcome(TRUE, c, simulated_open_positions, calls, FALSE, [success |-> TRUE])

\* connect called on a gateway whose fields are conn and creds.
connect_in(conn, creds, c) ==
    IF ~mt5_available
    THEN { Outcome(FALSE, creds, simulated_open_positions, NoCalls, FALSE,
                   [success |-> FALSE]) }
    ELSE IF c.login = "" \/ c.password = "" \/ c.server = ""
    THEN { Outcome(conn, creds, simulated_open_positions, NoCalls, FALSE,
                   [success |-> FALSE]) }
    ELSE IF ~LoginParses(c.login)
    THEN { Outcome(conn, creds, simulated_open_positions, NoCalls, FALSE,
                   [success |-> FALSE]) }
    ELSE
      \* initialize() raises
      connect_except([NoCalls EXCEPT !.initialize = "raise"])
      \* initialize() returns False
      \cup { connect_refused(c, [NoCalls EXCEPT !.initialize = "false"]) }
      \* login() raises
      \cup connect_except([NoCalls EXCEPT !.initialize = "true", !.login = "raise"])
      \* login() returns False, then shutdown() raises or returns
      \cup connect_except([NoCalls EXCEPT !.initialize = "true", !.login = "false",
                                          !.shutdown = "raise"])
      \cup { connect_refused(c, [NoCalls EXCEPT !.initialize = "true",
                                                !.login = "false", !.shutdown = "ok"]) }
      \* both succeed
      \cup { connect_success(c, [NoCalls EXCEPT !.initialize = "true",
                                                !.login = "true"]) }

connect(c) == connect_in(connected, credentials, c)

\* disconnect without its finally clause: a shutdown() that raises leaves
\* the fields as they were.
disconnect_without_finally ==
    { Outcome(FALSE, EmptyCredentials, simulated_open_positions,
              IF connected /\ mt5_available
              THEN [NoCalls EXCEPT !.shutdown = "ok"] ELSE NoCalls,
              FALSE, NoRet) }
    \cup { Outcome(connected, credentials, simulated_open_positions,
                   [NoCalls EXCEPT !.shutdown = "raise"], FALSE, NoRet) :
             x \in IF connected /\ mt5_available THEN {1} ELSE {} }

disconnect ==
    { Outcome(FALSE, EmptyCredentials, simulated_open_positions,
              IF connected /\ mt5_available
              THEN [NoCalls EXCEPT !.shutdown = x] ELSE NoCalls,
              FALSE, NoRet) :
        x \in {"ok", "raise"} }

----------------------------------------------------------------------------
(* get_current_price                                                       *)

\* _get_mock_current_price: the bid and ask are random numbers around a
\* cached base price; the model keeps the pair and the source of the quote.
get_mock_current_price(pair) == [pair |-> pair, data_source |-> "mock"]

\* get_current_price that reports every quote asked while connected as live.
get_current_price_always_live(pair) ==
    IF ~connected
    THEN { Outcome(connected, credentials, simulated_open_positions, NoCalls, FALSE,
                   get_mock_current_price(pair)) }
    ELSE { Outcome(connected, credentials, simulated_open_positions,
                   [NoCalls EXCEPT !.tick = x], FALSE,
                   [pair |-> pair, data_source |-> "live"]) :
             x \in {"tick", "none", "raise"} }

get_current_price(pair) ==
    IF ~connected
    THEN { Outcome(connected, credentials, simulated_open_positions, NoCalls, FALSE,
                   get_mock_current_price(pair)) }
    ELSE IF ~mt5_available
    THEN { Outcome(connected, credentials, simulated_open_positions, NoCalls, FALSE,
                   get_mock_current_price(pair)) }
    ELSE
      { Outcome(connected, credentials, simulated_open_positions,
                [NoCalls EXCEPT !.tick = "tick"], FALSE,
                [pair |-> pair, data_source |-> "live"]) }
      \cup { Outcome(connected, credentials, simulated_open_positions,
                     [NoCalls EXCEPT !.tick = x], FALSE,
                     get_mock_current_price(pair)) :
               x \in {"none", "raise"} }

----------------------------------------------------------------------------
(* place_order                                                             *)

TRADE_RETCODE_DONE == 10009
TRADE_RETCODE_PLACED == 10008
\* The return codes the venue answers with (10016: invalid stops).
Retcodes == {TRADE_RETCODE_DONE, TRADE_RETCODE_PLACED, 10016}

\* order_send answered with a result object whose retcode is rc.
Sent(calls, rc) == [calls EXCEPT !.order_send = "result", !.retcode = rc]

ORDER_TYPE_BUY == 0
ORDER_TYPE_SELL == 1

DefaultOpenPrice == 108250
DefaultOpenPriceJPY == 15025000
PriceOffset == 500
PriceOffsetJPY == 50000

\* The dict every order method returns.  order_id is NoId when the key is
\* missing or None, retcode is Absent when the key is missing.
Result(success, order_id, message, data_source, retcode) ==
    [success |-> success, order_id |-> order_id, message |-> message,
     data_source |-> data_source, retcode |-> retcode]

\* "JPY" in pair.upper(), over the pairs of the model
HasJPY(pair) == pair = "USDJPY"

\* round(x, 5) and round(x, 3) on a price held in 1e-5 units: to the nearest
\* multiple of unit (no price of the model lies halfway).
RoundTo(x, unit) == ((2 * x + unit) \div (2 * unit)) * unit

\* float(order_details.get(key, 0.0))
FloatOrZero(v) == IF v = Absent THEN 0 ELSE v

mock_open_price(req) ==
    LET jpy == HasJPY(req.pair)
        default == IF jpy THEN DefaultOpenPriceJPY ELSE DefaultOpenPrice
        offset == IF jpy THEN PriceOffsetJPY ELSE PriceOffset
        raw == IF req.sl = Absent THEN default
               ELSE IF req.side = "buy" THEN req.sl + offset ELSE req.sl - offset
    IN  RoundTo(raw, IF jpy THEN 100 ELSE 1)

\* new_position with the default volume in place of the requested one.
new_position_default_size(req, position_id, order_id) ==
    [id |-> position_id, order_id_ref |-> order_id,
     pair |-> req.pair,
     type |-> IF req.side = "buy" THEN ORDER_TYPE_BUY ELSE ORDER_TYPE_SELL,
     size |-> 10,
     open_price |-> mock_open_price(req),
     sl |-> FloatOrZero(req.sl), tp |-> FloatOrZero(req.tp)]

\* new_position that refers to its own id in place of the order's.
new_position_own_ref(req, position_id, order_id) ==
    [id |-> position_id, order_id_ref |-> position_id,
     pair |-> req.pair,
     type |-> IF req.side = "buy" THEN ORDER_TYPE_BUY ELSE ORDER_TYPE_SELL,
     size |-> req.size,
     open_price |-> mock_open_price(req),
     sl |-> FloatOrZero(req.sl), tp |-> FloatOrZero(req.tp)]

new_position(req, position_id, order_id) ==
    [id |-> position_id, order_id_ref |-> order_id,
     pair |-> req.pair,
     type |-> IF req.side = "buy" THEN ORDER_TYPE_BUY ELSE ORDER_TYPE_SELL,
     size |-> req.size,
     open_price |-> mock_open_price(req),
     sl |-> FloatOrZero(req.sl), tp |-> FloatOrZero(req.tp)]

\* The values of a uuid draw that differ for the program: ids are only ever
\* compared for equality, so a draw either repeats an id the registry holds
\* or is new, and the new one is named by the least unused number.
Draw(used) ==
    { u \in Uuids : u \in used \/ \A w \in 1..(u - 1) : w \in used }

UsedOrderIds ==
    { simulated_open_positions[i].order_id_ref.n :
        i \in 1..Len(simulated_open_positions) }

UsedPositionIds ==
    { simulated_open_positions[i].id.n : i \in 1..Len(simulated_open_positions) }

\* _simulate_place_order; calls are the venue calls made before it.
simulate_place_order(req, calls) ==
    IF req.type = "market"
    THEN IF req.pair = NoPair
         \* order_details["pair"] raises KeyError
         THEN { Outcome(connected, credentials, simulated_open_positions, calls,
                        TRUE, NoRet) }
         ELSE { Outcome(connected, credentials,
                        Append(simulated_open_positions,
                               new_position(req, SimPosId(u2), SimOrdId(u1))),
                        calls, FALSE,
                        Result(TRUE, SimOrdId(u1), "Order simulated successfully.",
                               "simulated", Absent)) :
                  u1 \in Draw(UsedOrderIds), u2 \in Draw(UsedPositionIds) }
    ELSE { Outcome(connected, credentials, simulated_open_positions, calls, FALSE,
                   Result(TRUE, SimOrdId(u1), "Order simulated successfully.",
                          "simulated", Absent)) :
             u1 \in Draw(UsedOrderIds) }

\* A result of the live path that changes nothing in the object.
Returned(calls, ret) ==
    Outcome(connected, credentials, simulated_open_positions, calls, FALSE, ret)

\* An exception that escapes the method.
Escaped(calls) ==
    Outcome(connected, credentials, simulated_open_positions, calls, TRUE, NoRet)

\* place_order_send that treats a refusal of the venue like a lost answer.
place_order_send_fallback_on_reject(req, calls) ==
    UNION { simulate_place_order(req, [calls EXCEPT !.order_send = x]) :
              x \in {"none", "raise"} }
    \cup UNION { IF rc \in {TRADE_RETCODE_DONE, TRADE_RETCODE_PLACED}
                 THEN { Returned(Sent(calls, rc),
                                 Result(TRUE, TicketId(t), "Order placed successfully.",
                                        "live", Absent)) : t \in Tickets }
                 ELSE simulate_place_order(req, Sent(calls, rc)) :
                 rc \in Retcodes }

\* place_order_send that reports a refusal of the venue without a message.
place_order_send_silent_reject(req, calls) ==
    UNION { simulate_place_order(req, [calls EXCEPT !.order_send = x]) :
              x \in {"none", "raise"} }
    \cup UNION { IF rc \in {TRADE_RETCODE_DONE, TRADE_RETCODE_PLACED}
                 THEN { Returned(Sent(calls, rc),
                                 Result(TRUE, TicketId(t), "Order placed successfully.",
                                        "live", Absent)) : t \in Tickets }
                 ELSE { Returned(Sent(calls, rc),
                                 Result(FALSE, NoId, "", "live_attempt_failed", rc)) } :
                 rc \in Retcodes }

\* Lines 388-407: order_send and what follows it.
place_order_send(req, calls) ==
    UNION { simulate_place_order(req, [calls EXCEPT !.order_send = x]) :
              x \in {"none", "raise"} }
    \cup UNION { IF rc \in {TRADE_RETCODE_DONE, TRADE_RETCODE_PLACED}
                 THEN { Returned(Sent(calls, rc),
                                 Result(TRUE, TicketId(t), "Order placed successfully.",
                                        "live", Absent)) : t \in Tickets }
                 ELSE { Returned(Sent(calls, rc),
                                 Result(FALSE, NoId, "Order failed",
                                        "live_attempt_failed", rc)) } :
                 rc \in Retcodes }

\* Lines 360-371: the tick of a market order, the price of a pending one.
place_order_price(req, calls) ==
    IF req.type = "market"
    THEN { Escaped([calls EXCEPT !.tick = "raise"]) }
         \cup { Returned([calls EXCEPT !.tick = "none"],
                         Result(FALSE, NoId, "Could not get tick",
                                "live_attempt_failed", Absent)) }
         \cup place_order_send(req, [calls EXCEPT !.tick = "tick"])
    ELSE IF FloatOrZero(req.price) = 0
    THEN { Returned(calls,
                    Result(FALSE, NoId,
                           "Price must be set for pending orders and cannot be zero.",
                           "input_error", Absent)) }
    ELSE place_order_send(req, calls)

\* Lines 344-358: the symbol lookup, as the answers of symbol_info,
\* symbol_select and the second symbol_info.
SymbolTraces ==
    { <<"info", "-", "-">>, <<"none", "true", "info">>,
      <<"none", "false", "-">>, <<"none", "true", "none">>,
      <<"raise", "-", "-">>, <<"none", "true", "raise">> }

SymbolCalls(t) ==
    [NoCalls EXCEPT !.symbol_info = t[1], !.symbol_select = t[2], !.symbol_info2 = t[3]]

SymbolMessage(t) ==
    IF "raise" \in {t[1], t[2], t[3]} THEN "Exception getting symbol info"
    ELSE IF t[2] = "false" THEN "Failed to select symbol"
    ELSE "Symbol not found"

\* Lines 320-407: the live path of place_order.
place_order_live(req) ==
    IF ~(req.type \in {"market", "limit", "stop"} /\ req.side \in {"buy", "sell"})
    THEN { Returned(NoCalls, Result(FALSE, NoId, "Unsupported order type/side",
                                    "live_attempt_failed", Absent)) }
    ELSE IF req.pair = NoPair
    THEN { Returned(NoCalls, Result(FALSE, NoId,
                                    "Pair must be specified for placing an order.",
                                    "input_error", Absent)) }
    ELSE UNION { IF "info" \in {t[1], t[3]}
                 THEN place_order_price(req, SymbolCalls(t))
                 ELSE { Returned(SymbolCalls(t),
                                 Result(FALSE, NoId, SymbolMessage(t),
                                        "live_attempt_failed", Absent)) } :
                   t \in SymbolTraces }

\* place_order without the first check, of self._connected.
place_order_unchecked(req) ==
    IF ~mt5_available THEN simulate_place_order(req, NoCalls)
    ELSE place_order_live(req)

place_order(req) ==
    IF ~connected THEN simulate_place_order(req, NoCalls)
    ELSE IF ~mt5_available THEN simulate_place_order(req, NoCalls)
    ELSE place_order_live(req)

----------------------------------------------------------------------------
(* modify_order                                                            *)

\* new_params of modify_order: sl, tp, price, each a number, PyNone (the
\* key is present with the value None) or Absent (no such key).
Params(sl, tp, price) == [sl |-> sl, tp |-> tp, price |-> price]

ModifyParams ==
    { Params(107500, Absent, 108000),
      Params(Absent, Absent, Absent),
      Params(PyNone, PyNone, Absent) }

\* The ids modify_order and close_order are called with.
ArgIds ==
    { SimOrdId(u) : u \in Uuids } \cup { SimPosId(u) : u \in Uuids }
    \cup { TicketId(t) : t \in Tickets }

\* What the venue reports for a ticket it knows: positions_get(ticket=...)[0]
\* and orders_get(ticket=...)[0].
VenuePosition == [symbol |-> "EURUSD", volume |-> 20, type |-> ORDER_TYPE_BUY,
                  sl |-> 107500, tp |-> 109000]
VenuePendingOrder == [symbol |-> "EURUSD", price_open |-> 108000,
                      sl |-> 107500, tp |-> 109000]

\* "key" in new_params and new_params["key"] is not None
Given(v) == v # Absent /\ v # PyNone

Matches(pos, order_id) == pos.id = order_id \/ pos.order_id_ref = order_id

\* _simulate_modify_order that tags what it did as live.
simulate_modify_order_tagged_live(order_id, new_params, calls) ==
    LET found == { i \in 1..Len(simulated_open_positions) :
                     Matches(simulated_open_positions[i], order_id) }
    IN  IF found = {}
        THEN { Returned(calls,
                        Result(FALSE, NoId, "not found for simulated modification.",
                               "simulated_failed_not_found", Absent)) }
        ELSE LET i == CHOOSE k \in found : \A j \in found : k <= j
                 pos == simulated_open_positions[i]
                 upd == [pos EXCEPT
                           !.sl = IF Given(new_params.sl) THEN new_params.sl ELSE @,
                           !.tp = IF Given(new_params.tp) THEN new_params.tp ELSE @]
             IN  { Outcome(connected, credentials,
                           [simulated_open_positions EXCEPT ![i] = upd],
                           calls, FALSE,
                           Result(TRUE, NoId, "modification simulated successfully.",
                                  "live", Absent)) }

\* _simulate_modify_order that writes the stops into every position once
\* the id is found.
simulate_modify_order_every_position(order_id, new_params, calls) ==
    LET found == { i \in 1..Len(simulated_open_positions) :
                     Matches(simulated_open_positions[i], order_id) }
    IN  IF found = {}
        THEN { Returned(calls,
                        Result(FALSE, NoId, "not found for simulated modification.",
                               "simulated_failed_not_found", Absent)) }
        ELSE { Outcome(connected, credentials,
                       [i \in 1..Len(simulated_open_positions) |->
                          [simulated_open_positions[i] EXCEPT
                             !.sl = IF Given(new_params.sl) THEN new_params.sl ELSE @,
                             !.tp = IF Given(new_params.tp) THEN new_params.tp ELSE @]],
                       calls, FALSE,
                       Result(TRUE, NoId, "modification simulated successfully.",
                              "simulated", Absent)) }

\* _simulate_modify_order: the first position whose id or order_id_ref is
\* order_id gets the stop-loss and take-profit that are given.
simulate_modify_order(order_id, new_params, calls) ==
    LET found == { i \in 1..Len(simulated_open_positions) :
                     Matches(simulated_open_positions[i], order_id) }
    IN  IF found = {}
        THEN { Returned(calls,
                        Result(FALSE, NoId, "not found for simulated modification.",
                               "simulated_failed_not_found", Absent)) }
        ELSE LET i == CHOOSE k \in found : \A j \in found : k <= j
                 pos == simulated_open_positions[i]
                 upd == [pos EXCEPT
                           !.sl = IF Given(new_params.sl) THEN new_params.sl ELSE @,
                           !.tp = IF Given(new_params.tp) THEN new_params.tp ELSE @]
             IN  { Outcome(connected, credentials,
                           [simulated_open_positions EXCEPT ![i] = upd],
                           calls, FALSE,
                           Result(TRUE, NoId, "modification simulated successfully.",
                                  "simulated", Absent)) }

TRADE_ACTION_SLTP == 3
TRADE_ACTION_MODIFY == 4

\* position_request that sends the position's own value for a field that is
\* not given.
position_request_resends(new_params) ==
    Request(TRADE_ACTION_SLTP,
            IF Given(new_params.sl) THEN new_params.sl ELSE VenuePosition.sl,
            IF Given(new_params.tp) THEN new_params.tp ELSE VenuePosition.tp,
            Absent)

\* Lines 466-470: the request for an open position holds sl and tp only
\* where new_params gives them.
position_request(new_params) ==
    Request(TRADE_ACTION_SLTP,
            IF Given(new_params.sl) THEN new_params.sl ELSE Absent,
            IF Given(new_params.tp) THEN new_params.tp ELSE Absent,
            Absent)

\* Lines 478-485: the request for a pending order holds price, sl and tp,
\* each new_params.get(key, existing); float(None) raises before this.
pending_request(new_params, info) ==
    Request(TRADE_ACTION_MODIFY,
            IF new_params.sl = Absent THEN info.sl ELSE new_params.sl,
            IF new_params.tp = Absent THEN info.tp ELSE new_params.tp,
            IF new_params.price = Absent THEN info.price_open ELSE new_params.price)

\* Lines 520-539: order_send of the modification and what follows it.
modify_order_send(order_id, new_params, calls) ==
    UNION { simulate_modify_order(order_id, new_params,
                                  [calls EXCEPT !.order_send = x]) :
              x \in {"none", "raise"} }
    \cup { IF rc = TRADE_RETCODE_DONE
           THEN Returned(Sent(calls, rc),
                         Result(TRUE, NoId, "modified successfully", "live", Absent))
           ELSE Returned(Sent(calls, rc),
                         Result(FALSE, NoId, "modify failed", "live_attempt_failed",
                                rc)) :
           rc \in Retcodes }

\* Lines 497-517, given the request built and whether it changes nothing.
modify_order_check(order_id, new_params, calls, request, no_change, is_position) ==
    IF no_change /\ new_params.sl = Absent /\ new_params.tp = Absent
                 /\ new_params.price = Absent
    THEN { Returned(calls,
                    Result(FALSE, NoId,
                           "No new SL, TP, or Price provided for modification.",
                           "input_error", Absent)) }
    \* a pending order's request always holds sl, tp and price
    ELSE IF no_change /\ is_position
    THEN { Returned(calls,
                    Result(TRUE, NoId,
                           "No actual change in SL, TP, or Price values; modification not sent.",
                           "no_change_needed", Absent)) }
    ELSE modify_order_send(order_id, new_params,
                           [calls EXCEPT !.modify_request = request])

\* Lines 473-495: the id is no open position; orders_get decides.
modify_order_pending(order_id, new_params, calls) ==
    { Escaped([calls EXCEPT !.orders_get = "raise"]) }
    \cup { Returned([calls EXCEPT !.orders_get = "none"],
                    Result(FALSE, NoId, "Order/Position not found.",
                           "live_attempt_failed_not_found", Absent)) }
    \cup ( LET c == [calls EXCEPT !.orders_get = "found"]
               info == VenuePendingOrder
               \* float(new_params.get(key, existing)): float(None) raises
               request == pending_request(new_params, info)
           IN  IF PyNone \in {new_params.price, new_params.sl, new_params.tp}
               THEN { Escaped(c) }
               ELSE modify_order_check(order_id, new_params, c, request,
                                       request.price = info.price_open
                                         /\ request.sl = info.sl
                                         /\ request.tp = info.tp,
                                       FALSE) )

\* Lines 448-539: the live path of modify_order.
modify_order_live(order_id, new_params) ==
    IF ~IsIntString(order_id)
    THEN { Returned(NoCalls, Result(FALSE, NoId, "Invalid order_id format",
                                    "input_error", Absent)) }
    ELSE
      \* positions_get is called outside any try
      { Escaped([NoCalls EXCEPT !.positions_get = "raise"]) }
      \cup modify_order_check(order_id, new_params,
                              [NoCalls EXCEPT !.positions_get = "found"],
                              position_request(new_params),
                              position_request(new_params).sl = Absent
                                /\ position_request(new_params).tp = Absent,
                              TRUE)
      \cup modify_order_pending(order_id, new_params,
                                [NoCalls EXCEPT !.positions_get = "none"])

modify_order(order_id, new_params) ==
    IF ~connected THEN simulate_modify_order(order_id, new_params, NoCalls)
    ELSE IF ~mt5_available THEN simulate_modify_order(order_id, new_params, NoCalls)
    ELSE modify_order_live(order_id, new_params)

----------------------------------------------------------------------------
(* close_order                                                             *)

\* size_to_close: Absent is None (the default); volumes in 0.001 lot.
CloseSizes == {Absent, 4, 16, 20, 26}

\* round(x, 2) of a volume held in 0.001 lot
RoundLots(x) == RoundTo(x, 10)

\* The smallest volume a position keeps, 0.01 lot.
MinLot == 10

\* A loop that keeps the exact remainder of every partial close.
RECURSIVE close_loop_exact(_, _, _, _)
close_loop_exact(positions, i, order_id, size_to_close) ==
    IF i > Len(positions) THEN <<>>
    ELSE LET pos == positions[i]
             rest == close_loop_exact(positions, i + 1, order_id, size_to_close)
             effective == IF size_to_close # Absent /\ size_to_close > 0
                          THEN size_to_close ELSE pos.size
         IN  IF ~Matches(pos, order_id) THEN <<pos>> \o rest
             ELSE IF effective >= pos.size THEN rest
             ELSE <<[pos EXCEPT !.size = pos.size - effective]>> \o rest

\* A loop that keeps every rounded remainder, however small.
RECURSIVE close_loop_keeps_dust(_, _, _, _)
close_loop_keeps_dust(positions, i, order_id, size_to_close) ==
    IF i > Len(positions) THEN <<>>
    ELSE LET pos == positions[i]
             rest == close_loop_keeps_dust(positions, i + 1, order_id, size_to_close)
             effective == IF size_to_close # Absent /\ size_to_close > 0
                          THEN size_to_close ELSE pos.size
             new_size == RoundLots(pos.size - effective)
         IN  IF ~Matches(pos, order_id) THEN <<pos>> \o rest
             ELSE IF effective >= pos.size THEN rest
             ELSE <<[pos EXCEPT !.size = new_size]>> \o rest

\* The loop of _simulate_close_order over the positions from index i on:
\* a matching position is dropped when the volume to close reaches its
\* size or leaves less than 0.01 lot, and shrinks otherwise.
RECURSIVE close_loop(_, _, _, _)
close_loop(positions, i, order_id, size_to_close) ==
    IF i > Len(positions) THEN <<>>
    ELSE LET pos == positions[i]
             rest == close_loop(positions, i + 1, order_id, size_to_close)
             effective == IF size_to_close # Absent /\ size_to_close > 0
                          THEN size_to_close ELSE pos.size
             new_size == RoundLots(pos.size - effective)
         IN  IF ~Matches(pos, order_id) THEN <<pos>> \o rest
             ELSE IF effective >= pos.size THEN rest
             ELSE IF new_size >= MinLot
             THEN <<[pos EXCEPT !.size = new_size]>> \o rest
             ELSE rest

\* _simulate_close_order once its loop has read the positions seen: the
\* list it built from them replaces the registry (line 569), found or not.
simulate_close_order_from(seen, order_id, size_to_close, calls) ==
    { Outcome(connected, credentials,
              close_loop(seen, 1, order_id, size_to_close),
              calls, FALSE,
              IF \E i \in 1..Len(seen) : Matches(seen[i], order_id)
              THEN Result(TRUE, NoId, "close action simulated.", "simulated",
                          Absent)
              ELSE Result(FALSE, NoId, "not found for simulated closing.",
                          "simulated_failed_not_found", Absent)) }

simulate_close_order(order_id, size_to_close, calls) ==
    simulate_close_order_from(simulated_open_positions, order_id, size_to_close,
                              calls)

\* Lines 635-654: order_send of the closing deal and what follows it.
close_order_send(order_id, size_to_close, calls) ==
    UNION { simulate_close_order(order_id, size_to_close,
                                 [calls EXCEPT !.order_send = x]) :
              x \in {"none", "raise"} }
    \cup UNION { IF rc = TRADE_RETCODE_DONE
                 THEN { Returned(Sent(calls, rc),
                                 Result(TRUE, TicketId(t),
                                        "closed/partially closed successfully",
                                        "live", Absent)) : t \in Tickets }
                 ELSE { Returned(Sent(calls, rc),
                                 Result(FALSE, NoId, "close failed",
                                        "live_attempt_failed", rc)) } :
                 rc \in Retcodes }

\* Lines 610-624, with the venue's position in hand.
close_order_found(order_id, size_to_close, calls) ==
    LET volume_to_close == IF size_to_close # Absent /\ size_to_close > 0
                           THEN size_to_close ELSE VenuePosition.volume
    IN  IF volume_to_close > VenuePosition.volume
        THEN { Returned(calls,
                        Result(FALSE, NoId, "Cannot close; only part available",
                               "live_attempt_failed_insufficient_volume", Absent)) }
        ELSE
          \* symbol_info_tick is called outside any try
          { Escaped([calls EXCEPT !.tick = "raise"]) }
          \cup { Returned([calls EXCEPT !.tick = "none"],
                          Result(FALSE, NoId, "Could not get current price",
                                 "live_attempt_failed_no_price", Absent)) }
          \cup close_order_send(order_id, size_to_close,
                                [calls EXCEPT !.tick = "tick"])

\* Lines 585-654: the live path of close_order.
close_order_live(order_id, size_to_close) ==
    IF ~IsIntString(order_id)
    THEN { Returned(NoCalls, Result(FALSE, NoId, "Invalid ticket format for close_order.",
                                    "input_error", Absent)) }
    ELSE
      UNION { simulate_close_order(order_id, size_to_close,
                                   [NoCalls EXCEPT !.positions_get = x]) :
                x \in {"none", "raise"} }
      \cup close_order_found(order_id, size_to_close,
                             [NoCalls EXCEPT !.positions_get = "found"])

close_order(order_id, size_to_close) ==
    IF ~connected THEN simulate_close_order(order_id, size_to_close, NoCalls)
    ELSE IF ~mt5_available THEN simulate_close_order(order_id, size_to_close, NoCalls)
    ELSE close_order_live(order_id, size_to_close)

----------------------------------------------------------------------------
(* get_account_info, get_open_positions, get_pending_orders                *)

\* The dict get_account_info returns; NoRet stands for None.
AccountInfo(login, data_source) == [login |-> login, data_source |-> data_source]

\* A list returned to the caller.
Listing(items) == [items |-> items]

\* An entry of a returned list: the record with the key data_source added.
Tagged(entry, data_source) ==
    [k \in DOMAIN entry \cup {"data_source"} |->
       IF k = "data_source" THEN data_source ELSE entry[k]]

get_account_info ==
    IF ~connected THEN { Returned(NoCalls, NoRet) }
    ELSE IF ~mt5_available
    THEN { Returned(NoCalls, AccountInfo(credentials.login, "mock")) }
    ELSE { Returned([NoCalls EXCEPT !.account_info = "info"],
                    AccountInfo(credentials.login, "live")) }
         \cup { Returned([NoCalls EXCEPT !.account_info = x],
                          AccountInfo(credentials.login, "mock")) :
                  x \in {"none", "raise"} }

\* Lines 696-715: the simulated positions, each copied and tagged.
simulated_positions_listing ==
    Listing([i \in 1..Len(simulated_open_positions) |->
               Tagged(simulated_open_positions[i], "simulated")])

\* The tuples mt5.positions_get() and mt5.orders_get() answer with.
VenuePositionLists == { <<>>, <<VenuePosition>> }
VenueOrderLists == { <<>>, <<VenuePendingOrder>> }

\* "found" for a tuple with entries, "empty" for the empty tuple.
ListAnswer(l) == IF Len(l) = 0 THEN "empty" ELSE "found"

get_open_positions ==
    IF mt5_available /\ connected
    THEN { Returned([NoCalls EXCEPT !.positions_get = ListAnswer(l)],
                    Listing([i \in 1..Len(l) |-> Tagged(l[i], "live")])) :
             l \in VenuePositionLists }
         \cup { Returned([NoCalls EXCEPT !.positions_get = x],
                          simulated_positions_listing) :
                  x \in {"none", "raise"} }
    ELSE { Returned(NoCalls, simulated_positions_listing) }

get_pending_orders ==
    IF ~connected THEN { Returned(NoCalls, Listing(<<>>)) }
    ELSE IF ~mt5_available THEN { Returned(NoCalls, Listing(<<>>)) }
    ELSE { Returned([NoCalls EXCEPT !.orders_get = ListAnswer(l)],
                    Listing([i \in 1..Len(l) |-> Tagged(l[i], "live")])) :
             l \in VenueOrderLists }
         \cup { Returned([NoCalls EXCEPT !.orders_get = x], Listing(<<>>)) :
                  x \in {"none", "raise"} }

----------------------------------------------------------------------------
(* Actions: one per public method                                          *)

\* The history variable scenario: 1 after a first call that is a connect
\* that failed, 2 after a market buy placed next, 3 after a quote asked
\* next, and 4 once the run has left that path.
ScenarioStep(op, arg, o) ==
    IF scenario = 0 /\ op = "connect" /\ (o.raised \/ ~o.ret.success) THEN 1
    ELSE IF scenario = 1 /\ op = "place_order" /\ arg.type = "market"
            /\ arg.side = "buy" /\ arg.pair # NoPair THEN 2
    ELSE IF scenario = 2 /\ op = "get_current_price" THEN 3
    ELSE 4

\* The object after a call, and the record of the call.
ApplyCall(op, arg, o) ==
    /\ connected' = o.connected
    /\ credentials' = o.credentials
    /\ simulated_open_positions' = o.positions
    /\ last' = Call(op, arg, o.calls, o.raised, o.ret)
    /\ scenario' = ScenarioStep(op, arg, o)
    /\ UNCHANGED mt5_available

\* A call made on the gateway directly, not through the approval gate.
Apply(op, arg, o) ==
    /\ ApplyCall(op, arg, o)
    /\ UNCHANGED gate_vars
    /\ UNCHANGED threads

Connect ==
    \E c \in CredentialInputs : \E o \in connect(c) :
        Apply("connect", c, o)

Disconnect ==
    \E o \in disconnect :
        Apply("disconnect", NoArg, o)

GetCurrentPrice ==
    \E pair \in Pairs : \E o \in get_current_price(pair) :
        Apply("get_current_price", [pair |-> pair], o)

PlaceOrder ==
    \E req \in OrderRequests : \E o \in place_order(req) :
        /\ Len(o.positions) <= MaxPositions
        /\ Apply("place_order", req, o)

ModifyOrder ==
    \E id \in ArgIds, np \in ModifyParams : \E o \in modify_order(id, np) :
        Apply("modify_order", [order_id |-> id, new_params |-> np], o)

CloseOrder ==
    \E id \in ArgIds, sz \in CloseSizes : \E o \in close_order(id, sz) :
        Apply("close_order", [order_id |-> id, size_to_close |-> sz], o)

GetAccountInfo ==
    \E o \in get_account_info :
        Apply("get_account_info", NoArg, o)

GetOpenPositions ==
    \E o \in get_open_positions :
        Apply("get_open_positions", NoArg, o)

GetPendingOrders ==
    \E o \in get_pending_orders :
        Apply("get_pending_orders", NoArg, o)

Next ==
    \/ Connect
    \/ Disconnect
    \/ GetCurrentPrice
    \/ PlaceOrder
    \/ ModifyOrder
    \/ CloseOrder
    \/ GetAccountInfo
    \/ GetOpenPositions
    \/ GetPendingOrders

Spec == Init /\ [][Next]_vars

----------------------------------------------------------------------------
(* The decision and its approval gate                                      *)

\* Latest minute of the clock in the model.
MaxClock == 7

\* timedelta(minutes=5): the approval window.
ApprovalWindow == 5

\* The users who approve and reject.
Actors == {"alice", "bob"}

STATE_PENDING_USER_APPROVAL == "STATE_PENDING_USER_APPROVAL"
STATE_SYSTEM_ACTIONED == "STATE_SYSTEM_ACTIONED"
STATE_USER_APPROVED == "STATE_USER_APPROVED"
STATE_USER_REJECTED == "STATE_USER_REJECTED"
STATE_EXPIRED == "STATE_EXPIRED"

\* A proposal of a sub-agent; confidence_score in hundredths.
Proposal(signal, confidence_score, entry_price, stop_loss, take_profit) ==
    [signal |-> signal, confidence_score |-> confidence_score,
     entry_price |-> entry_price, stop_loss |-> stop_loss,
     take_profit |-> take_profit]

\* state["aggregated_proposals_for_meta_agent"]; present FALSE: no such key.
Aggregated(currency_pair, proposals) ==
    [present |-> TRUE, currency_pair |-> currency_pair, proposals |-> proposals]
NoAggregated == [present |-> FALSE, currency_pair |-> "N/A_PAIR", proposals |-> <<>>]

AggregatedInputs ==
    { NoAggregated,
      Aggregated("EURUSD", <<>>),
      Aggregated("EURUSD", <<Proposal("BUY", 60, 108000, 107500, 109000)>>),
      Aggregated("EURUSD", <<Proposal("BUY", 55, 108000, 107500, 109000)>>),
      Aggregated("USDJPY", <<Proposal("SELL", 70, 15000000, 15100000, 14900000),
                             Proposal("BUY", 60, 15000000, 14900000, 15100000)>>) }

\* A decision whose window closes the moment it opens.
ForexFinalDecision_no_window(currency_pair, action, entry_price, stop_loss, take_profit, position_size, status, pending_approval_timestamp, approval_expiry_timestamp) ==
    [currency_pair |-> currency_pair, action |-> action,
     entry_price |-> entry_price, stop_loss |-> stop_loss,
     take_profit |-> take_profit, position_size |-> position_size,
     status |-> status,
     pending_approval_timestamp |-> pending_approval_timestamp,
     approval_expiry_timestamp |-> pending_approval_timestamp,
     user_action_timestamp |-> PyNone, acted_by_user_id |-> NoUser]

ForexFinalDecision(currency_pair, action, entry_price, stop_loss, take_profit, position_size, status, pending_approval_timestamp, approval_expiry_timestamp) ==
    [currency_pair |-> currency_pair, action |-> action,
     entry_price |-> entry_price, stop_loss |-> stop_loss,
     take_profit |-> take_profit, position_size |-> position_size,
     status |-> status,
     pending_approval_timestamp |-> pending_approval_timestamp,
     approval_expiry_timestamp |-> approval_expiry_timestamp,
     user_action_timestamp |-> PyNone, acted_by_user_id |-> NoUser]

\* A test that sends every action to the user.
NeedsApproval_every_action(action) == TRUE

\* "PENDING_APPROVAL" in final_action
NeedsApproval(action) == action = "EXECUTE_BUY_PENDING_APPROVAL"

\* ForexMetaAgent.evaluate_proposals at time t: the first BUY proposal with a
\* confidence above 0.55 makes a decision that waits for approval, with the
\* prices of that proposal; without one the decision is STAND_ASIDE.
evaluate_proposals(aggregated, t) ==
    IF ~aggregated.present
    THEN ForexFinalDecision(aggregated.currency_pair, "STAND_ASIDE", PyNone, PyNone,
                            PyNone, PyNone, STATE_SYSTEM_ACTIONED, PyNone, PyNone)
    ELSE LET props == aggregated.proposals
             buys == { i \in 1..Len(props) :
                         props[i].signal = "BUY" /\ props[i].confidence_score > 55 }
             final_action == IF buys = {} THEN "STAND_ASIDE"
                             ELSE "EXECUTE_BUY_PENDING_APPROVAL"
             prop == props[CHOOSE i \in buys : \A j \in buys : i <= j]
         IN  ForexFinalDecision(
               aggregated.currency_pair, final_action,
               IF buys = {} THEN PyNone ELSE prop.entry_price,
               IF buys = {} THEN PyNone ELSE prop.stop_loss,
               IF buys = {} THEN PyNone ELSE prop.take_profit,
               IF final_action # "STAND_ASIDE" THEN 10 ELSE PyNone,
               IF NeedsApproval(final_action) THEN STATE_PENDING_USER_APPROVAL
               ELSE STATE_SYSTEM_ACTIONED,
               IF NeedsApproval(final_action) THEN t ELSE PyNone,
               IF NeedsApproval(final_action) THEN t + ApprovalWindow ELSE PyNone)

Pending(d) == d.status = STATE_PENDING_USER_APPROVAL

\* A verdict that looks at the status only, not at the clock.
user_action_ignoring_expiry(d, status, actor, t) ==
    IF Pending(d)
    THEN [d EXCEPT !.status = status, !.user_action_timestamp = t,
                   !.acted_by_user_id = actor]
    ELSE d

\* A verdict written without comparing the status first.
user_action_blind_write(d, status, actor, t) ==
    IF t < d.approval_expiry_timestamp
    THEN [d EXCEPT !.status = status, !.user_action_timestamp = t,
                   !.acted_by_user_id = actor]
    ELSE d

\* The user's verdict, as one compare-and-set of the status: taken only
\* while the decision waits and its window has not closed.
user_action(d, status, actor, t) ==
    IF Pending(d) /\ t < d.approval_expiry_timestamp
    THEN [d EXCEPT !.status = status, !.user_action_timestamp = t,
                   !.acted_by_user_id = actor]
    ELSE d

\* An expiry check that looks at the clock only, not at the status.
check_expiry_any_status(d, t) ==
    IF t > d.approval_expiry_timestamp
    THEN [d EXCEPT !.status = STATE_EXPIRED]
    ELSE d

\* An expiry check that never expires anything.
check_expiry_keeps_pending(d, t) == d

\* checkExpiry(now): a waiting decision whose window has closed expires.
check_expiry(d, t) ==
    IF Pending(d) /\ t > d.approval_expiry_timestamp
    THEN [d EXCEPT !.status = STATE_EXPIRED]
    ELSE d

\* The order the gate places for an approved decision.
DecisionRequest(d) ==
    Req("market", "buy", d.currency_pair, d.position_size, Absent,
        d.stop_loss, d.take_profit)

GateCall(op, actor, ok) == [op |-> op, actor |-> actor, ok |-> ok]

EvaluateProposals ==
    /\ decision = NoDecision
    /\ \E aggregated \in AggregatedInputs :
         decision' = evaluate_proposals(aggregated, now)
    /\ gate_last' = GateCall("evaluate_proposals", NoUser, TRUE)
    /\ UNCHANGED <<now, approving, order_result, gateway_invocations>>
    /\ UNCHANGED gateway_vars
    /\ UNCHANGED threads

Tick ==
    /\ now < MaxClock
    /\ now' = now + 1
    /\ UNCHANGED <<decision, approving, order_result, gateway_invocations, gate_last>>
    /\ UNCHANGED gateway_vars
    /\ UNCHANGED threads

\* approve(actorId), first step: the status is set.
Approve ==
    /\ decision # NoDecision
    /\ \E actor \in Actors :
         /\ decision' = user_action(decision, STATE_USER_APPROVED, actor, now)
         /\ gate_last' = GateCall("approve", actor, decision' # decision)
         /\ approving' = IF decision' # decision THEN actor ELSE approving
    /\ UNCHANGED <<now, order_result, gateway_invocations>>
    /\ UNCHANGED gateway_vars
    /\ UNCHANGED threads

\* approve(actorId), second step: the gateway is called with the order of
\* the decision and its answer is attached.
ApproveInvoke ==
    /\ approving # NoUser
    /\ \E o \in place_order(DecisionRequest(decision)) :
         /\ ApplyCall("place_order", DecisionRequest(decision), o)
         /\ order_result' = [raised |-> o.raised, ret |-> o.ret]
    /\ gateway_invocations' = gateway_invocations + 1
    /\ gate_last' = GateCall("place_order", approving, TRUE)
    /\ approving' = NoUser
    /\ UNCHANGED <<decision, now, threads>>

Reject ==
    /\ decision # NoDecision
    /\ \E actor \in Actors :
         /\ decision' = user_action(decision, STATE_USER_REJECTED, actor, now)
         /\ gate_last' = GateCall("reject", actor, decision' # decision)
    /\ UNCHANGED <<now, approving, order_result, gateway_invocations>>
    /\ UNCHANGED gateway_vars
    /\ UNCHANGED threads

CheckExpiry ==
    /\ decision # NoDecision
    /\ decision' = check_expiry(decision, now)
    /\ gate_last' = GateCall("check_expiry", NoUser, decision' # decision)
    /\ UNCHANGED <<now, approving, order_result, gateway_invocations>>
    /\ UNCHANGED gateway_vars
    /\ UNCHANGED threads

\* The gateway as the gate finds it: new, or connected by a connect that
\* succeeded.
GateInit ==
    /\ mt5_available \in BOOLEAN
    /\ simulated_open_positions = <<>>
    /\ \/ /\ connected = FALSE
          /\ credentials = EmptyCredentials
          /\ last = Call("init", NoArg, NoCalls, FALSE, NoRet)
          /\ scenario = 0
       \/ /\ mt5_available
          /\ connected = TRUE
          /\ credentials = Cred("1001", "pw", "srv")
          /\ last = Call("connect", Cred("1001", "pw", "srv"),
                         [NoCalls EXCEPT !.initialize = "true", !.login = "true"],
                         FALSE, [success |-> TRUE])
          /\ scenario = 4
    /\ GateIdle
    /\ threads = NoThreads

GateNext ==
    \/ EvaluateProposals
    \/ Tick
    \/ Approve
    \/ ApproveInvoke
    \/ Reject
    \/ CheckExpiry

GateSpec == GateInit /\ [][GateNext]_vars

----------------------------------------------------------------------------
(* Callers that overlap                                                    *)

\* The class holds no lock: a caller inside place_order, modify_order or
\* close_order can be overtaken, between two of its statements, by connect,
\* by disconnect and by another caller.  An order operation is cut where it
\* reads shared fields: at its connectivity check, where the loop of
\* _simulate_close_order reads a position, and at the rest, which holds the
\* venue submission and every write.

\* The calls the overlapping callers make.
ThreadCalls ==
    { [op |-> "place_order",
       arg |-> Req("market", "buy", "EURUSD", 30, Absent, 107500, 109000)],
      [op |-> "modify_order",
       arg |-> [order_id |-> TicketId(5001),
                new_params |-> Params(107500, Absent, 108000)]],
      [op |-> "close_order",
       arg |-> [order_id |-> SimPosId(1), size_to_close |-> 10]],
      [op |-> "close_order",
       arg |-> [order_id |-> TicketId(5001), size_to_close |-> 10]] }

\* Lines 313-318, 441-446, 578-583: the connectivity check of an order
\* operation chooses the live path or the simulation.
Route == IF connected /\ mt5_available THEN "live" ELSE "sim"

OrderBegin ==
    \E t \in Threads : \E c \in ThreadCalls :
        /\ threads[t].pc = "idle"
        /\ threads' = [threads EXCEPT
                         ![t] = [pc |-> "checked", op |-> c.op, arg |-> c.arg,
                                 route |-> Route,
                                 seen_credentials |-> credentials,
                                 seen_positions |-> <<>>]]
        /\ UNCHANGED gateway_vars
        /\ UNCHANGED gate_vars

\* Lines 547-551: the loop of _simulate_close_order reads the positions.
ReadsPositions(th) == th.op = "close_order" /\ th.route = "sim"

SimCloseRead ==
    \E t \in Threads :
        /\ threads[t].pc = "checked"
        /\ ReadsPositions(threads[t])
        /\ threads' = [threads EXCEPT
                         ![t].pc = "read",
                         ![t].seen_positions = simulated_open_positions]
        /\ UNCHANGED gateway_vars
        /\ UNCHANGED gate_vars

\* The rest of the operation a caller is inside, on the path it has chosen.
Remainder(th) ==
    IF th.op = "place_order"
    THEN IF th.route = "live" THEN place_order_live(th.arg)
         ELSE simulate_place_order(th.arg, NoCalls)
    ELSE IF th.op = "modify_order"
    THEN IF th.route = "live"
         THEN modify_order_live(th.arg.order_id, th.arg.new_params)
         ELSE simulate_modify_order(th.arg.order_id, th.arg.new_params, NoCalls)
    ELSE IF th.route = "live"
         THEN close_order_live(th.arg.order_id, th.arg.size_to_close)
         ELSE simulate_close_order_from(th.seen_positions, th.arg.order_id,
                                        th.arg.size_to_close, NoCalls)

ReadyToFinish(th) ==
    \/ th.pc = "checked" /\ ~ReadsPositions(th)
    \/ th.pc = "read"

OrderFinish ==
    \E t \in Threads :
        /\ ReadyToFinish(threads[t])
        /\ \E o \in Remainder(threads[t]) :
             /\ Len(o.positions) <= MaxPositions
             /\ ApplyCall(threads[t].op, threads[t].arg, o)
        /\ threads' = [threads EXCEPT ![t] = Idle]
        /\ UNCHANGED gate_vars

ConcNext ==
    \/ Connect
    \/ Disconnect
    \/ OrderBegin
    \/ SimCloseRead
    \/ OrderFinish

ConcSpec == Init /\ [][ConcNext]_vars

----------------------------------------------------------------------------
(* The settings call, set_mt5_credentials (fastapi_backend/main.py)        *)

\* MT5Credentials declares login as an int: every login that reaches the
\* gateway parses, and 0 is a login that connect treats as missing.
SettingsInputs == { c \in CredentialInputs : c.login = "" \/ LoginParses(c.login) }

MT5CredentialsResponse(conn, message) ==
    [connected |-> conn, message |-> message, mt5_library_available |-> mt5_available]

\* Lines 196-209: with the library present the condition reads
\* shared_mt5_broker.mt5, an attribute MT5Broker never sets, and the
\* AttributeError leaves the endpoint; without the library the condition
\* stops at MT5_AVAILABLE and the response is built.
settings_failure(k) ==
    IF mt5_available
    THEN Outcome(k.connected, k.credentials, k.positions, k.calls, TRUE, NoRet)
    ELSE Outcome(k.connected, k.credentials, k.positions, k.calls, FALSE,
                 MT5CredentialsResponse(FALSE, "Failed to connect to MT5."))

\* Lines 173-174: the gateway as disconnect leaves it, when it was connected.
settings_disconnect ==
    IF connected
    THEN disconnect
    ELSE { Outcome(connected, credentials, simulated_open_positions, NoCalls,
                   FALSE, NoRet) }

\* The venue calls of the whole endpoint: those of connect, and the shutdown
\* of the disconnect before it where connect made none.
settings_calls(d, k) ==
    [k.calls EXCEPT !.shutdown = IF @ = NoCalls.shutdown THEN d.calls.shutdown ELSE @]

\* Lines 183-209: the answer of connect decides the response.
settings_response(d, k) ==
    IF k.raised
    THEN Outcome(k.connected, k.credentials, k.positions, settings_calls(d, k),
                 TRUE, NoRet)
    ELSE IF k.ret.success
    THEN Outcome(k.connected, k.credentials, k.positions, settings_calls(d, k),
                 FALSE, MT5CredentialsResponse(TRUE, "MT5 connected successfully."))
    ELSE settings_failure([k EXCEPT !.calls = settings_calls(d, k)])

set_mt5_credentials(c) ==
    { settings_response(d, k) :
        d \in settings_disconnect,
        k \in UNION { connect_in(e.connected, e.credentials, c) : e \in settings_disconnect } }

SetMt5Credentials ==
    \E c \in SettingsInputs : \E o \in set_mt5_credentials(c) :
        Apply("set_mt5_credentials", c, o)

\* The shared gateway of the backend: connected at start-up from the
\* environment, then driven by the settings call.
SettingsNext ==
    \/ SetMt5Credentials
    \/ Connect
    \/ Disconnect
    \/ GetAccountInfo
    \/ GetCurrentPrice
    \/ GetOpenPositions
    \/ GetPendingOrders
    \/ PlaceOrder

SettingsSpec == Init /\ [][SettingsNext]_vars

----------------------------------------------------------------------------
(* A registry of several positions                                         *)

\* The most positions the registry holds in FrameSpec.
MaxFramePositions == 2

\* The market buy orders with a symbol: requests that open a position.
FrameRequests ==
    { r \in OrderRequests : r.type = "market" /\ r.side = "buy" /\ r.pair # NoPair }

PlaceMarketOrder ==
    \E req \in FrameRequests : \E o \in place_order(req) :
        /\ Len(o.positions) <= MaxFramePositions
        /\ Apply("place_order", req, o)

\* A modification that moves the stop-loss of the positions FrameRequests open.
FrameParams == { Params(107000, Absent, Absent) }

\* A volume that closes part of a position of 0.03 lot and all of what is
\* left of it.
FrameCloseSizes == { 20 }

\* Credentials that are complete.
FrameCredentials == { c \in CredentialInputs : c.login # "" /\ LoginParses(c.login)
                                               /\ c.password # "" /\ c.server # "" }

ConnectComplete ==
    \E c \in FrameCredentials : \E o \in connect(c) :
        Apply("connect", c, o)

ModifyStops ==
    \E id \in ArgIds, np \in FrameParams : \E o \in modify_order(id, np) :
        Apply("modify_order", [order_id |-> id, new_params |-> np], o)

ClosePosition ==
    \E id \in ArgIds, sz \in FrameCloseSizes : \E o \in close_order(id, sz) :
        Apply("close_order", [order_id |-> id, size_to_close |-> sz], o)

\* Every method of the gateway, on a registry that fills with market orders.
FrameNext ==
    \/ ConnectComplete
    \/ Disconnect
    \/ GetCurrentPrice
    \/ PlaceMarketOrder
    \/ ModifyStops
    \/ ClosePosition
    \/ GetAccountInfo
    \/ GetOpenPositions
    \/ GetPendingOrders

FrameSpec == Init /\ [][FrameNext]_vars

----------------------------------------------------------------------------
(* Properties                                                              *)

Placed == last.op = "place_order"
Quoted == last.op = "get_current_price"
CredentialsEmpty == credentials = EmptyCredentials
ConnectFailed == last.op = "connect" /\ (last.raised \/ ~last.ret.success)
ConnectSucceeded == last.op = "connect" /\ ~last.raised /\ last.ret.success

C2_Rejected ==
    /\ Placed /\ last.calls.order_send = "result"
    /\ last.calls.retcode \notin {TRADE_RETCODE_DONE, TRADE_RETCODE_PLACED}

\* C2: when the venue answers order_send of place_order with a return code
\* other than TRADE_RETCODE_DONE and TRADE_RETCODE_PLACED, the result is a
\* failure that carries the code, is marked as
\* a failed live attempt and not as simulated, has no order id, and the
\* registry of simulated positions is left as it was.
C2_RejectionIsSurfaced ==
    /\ [](C2_Rejected =>
            /\ connected
            /\ ~last.raised
            /\ ~last.ret.success
            /\ last.ret.retcode = last.calls.retcode
            /\ last.ret.data_source = "live_attempt_failed"
            /\ last.ret.order_id = NoId)
    /\ [][C2_Rejected' => simulated_open_positions' = simulated_open_positions]_vars

C2_Witness ==
    /\ C2_Rejected /\ last.arg.type = "market"
    /\ last.ret.retcode = 10016 /\ simulated_open_positions = <<>>

\* order_send of the last place_order answered None or raised.
C3_Fallback == Placed /\ connected /\ last.calls.order_send \in {"none", "raise"}

\* C3: when order_send of place_order answers None or raises, the order is
\* simulated: the result is accepted with source simulated, and for a market
\* order one position is appended that carries the symbol, side, volume,
\* stop-loss and take-profit of the request (0 for one not given).
C3_FallbackKeepsRequest ==
    /\ [](C3_Fallback =>
            /\ ~last.raised
            /\ last.ret.success
            /\ last.ret.data_source = "simulated"
            /\ last.ret.order_id.tag = "sim_ord"
            /\ last.arg.type = "market" =>
                 /\ Len(simulated_open_positions) >= 1
                 /\ LET pos == simulated_open_positions[Len(simulated_open_positions)]
                    IN  /\ pos.pair = last.arg.pair
                        /\ pos.type = (IF last.arg.side = "buy" THEN ORDER_TYPE_BUY
                                       ELSE ORDER_TYPE_SELL)
                        /\ pos.size = last.arg.size
                        /\ pos.sl = (IF last.arg.sl = Absent THEN 0 ELSE last.arg.sl)
                        /\ pos.tp = (IF last.arg.tp = Absent THEN 0 ELSE last.arg.tp)
                        /\ pos.order_id_ref = last.ret.order_id)
    /\ [][(C3_Fallback' /\ last'.arg.type = "market") =>
            /\ Len(simulated_open_positions') = Len(simulated_open_positions) + 1
            /\ SubSeq(simulated_open_positions', 1, Len(simulated_open_positions))
                 = simulated_open_positions]_vars
    /\ [][(C3_Fallback' /\ last'.arg.type # "market") =>
            simulated_open_positions' = simulated_open_positions]_vars

C3_Witness ==
    /\ C3_Fallback /\ last.calls.order_send = "raise"
    /\ last.arg.type = "market" /\ last.arg.sl = 107500
    /\ Len(simulated_open_positions) = 1
    /\ simulated_open_positions[1].sl = 107500
    /\ simulated_open_positions[1].size = 30

\* symbol_info_tick answered None in the last place_order or close_order.
C4_NoTick ==
    /\ last.op \in {"place_order", "close_order"}
    /\ connected /\ last.calls.tick = "none"

\* C4 (as claimed): with the gateway connected and no tick to be had, a
\* market place_order and a close_order are answered by the simulation
\* rather than with a failed live result.
C4_NoTickFallsBack ==
    C4_NoTick =>
        /\ ~last.raised
        /\ last.ret.data_source \in {"simulated", "simulated_failed_not_found"}

\* The argument of the last call has its symbol and no None among its values.
C5_CompleteArgument ==
    /\ last.op = "place_order" => last.arg.pair # NoPair
    /\ last.op = "modify_order" =>
         PyNone \notin {last.arg.new_params.sl, last.arg.new_params.tp,
                        last.arg.new_params.price}

\* C5 (as claimed): whatever the venue answers, and in either connection
\* state, get_current_price, place_order, modify_order and close_order
\* return a result and let no exception escape.  Stated for calls whose
\* argument is complete (symbol present, no None among the new values).
C5_NoExceptionEscapes ==
    (/\ last.op \in {"get_current_price", "place_order", "modify_order",
                      "close_order"}
     /\ C5_CompleteArgument) => ~last.raised

\* C6 (as claimed): every connect that fails leaves the gateway
\* disconnected with empty credentials.
C6_FailedConnectClears ==
    ConnectFailed => (~connected /\ CredentialsEmpty)

\* C7: a connected gateway holds credentials whose login, password and
\* server are all non-empty; a connect that succeeds ends connected holding
\* the credentials it was given; and the gateway is connected after a step
\* other than a successful connect only if it was connected before it, with
\* the same credentials.
C7_ConnectedHoldsCredentials ==
    /\ [](connected =>
            /\ credentials.login # "" /\ credentials.password # ""
            /\ credentials.server # ""
            /\ LoginParses(credentials.login))
    /\ [](ConnectSucceeded => (connected /\ credentials = last.arg))
    /\ [][(connected' /\ ~ConnectSucceeded') =>
            (connected /\ credentials' = credentials)]_vars

C7_Witness ==
    /\ connected /\ credentials = Cred("1001", "pw", "srv")
    /\ last.op = "connect" /\ ~last.ret.success /\ last.arg.login = "abc"

\* C8: disconnect ends disconnected with empty credentials and raises
\* nothing, connected before or not, also when shutdown() raises; a second
\* disconnect changes no field of the gateway and raises nothing.
C8_DisconnectClears ==
    /\ [](last.op = "disconnect" =>
            (~last.raised /\ ~connected /\ CredentialsEmpty))
    /\ [][(last.op = "disconnect" /\ last'.op = "disconnect") =>
            /\ ~last'.raised
            /\ connected' = connected /\ credentials' = credentials
            /\ simulated_open_positions' = simulated_open_positions]_vars

C8_Witness ==
    /\ last.op = "disconnect" /\ last.calls.shutdown = "raise"
    /\ ~connected /\ CredentialsEmpty

\* C9: get_current_price always returns a quote; the quote is simulated
\* when the gateway is disconnected or symbol_info_tick answered None or
\* raised, and live only when the gateway is connected and symbol_info_tick
\* answered with a tick in this call.
C9_QuoteSource ==
    Quoted =>
        /\ ~last.raised
        /\ last.ret.pair = last.arg.pair
        /\ last.ret.data_source \in {"live", "mock"}
        /\ (~connected \/ last.calls.tick \in {"none", "raise"})
             => last.ret.data_source = "mock"
        /\ last.ret.data_source = "live"
             => (connected /\ last.calls.tick = "tick")

C9_Witness ==
    Quoted /\ connected /\ last.calls.tick = "raise" /\ last.ret.data_source = "mock"

\* C10: from a new gateway, after a connect that fails the gateway is
\* disconnected with empty credentials; a market buy placed next is accepted
\* with source simulated; and a quote asked after that is simulated.
C10_FailedConnectScenario ==
    /\ scenario \in {1, 2, 3} => (~connected /\ CredentialsEmpty)
    /\ scenario = 1 => ConnectFailed
    /\ scenario = 2 =>
         /\ Placed /\ ~last.raised /\ last.ret.success
         /\ last.ret.data_source = "simulated"
         /\ Len(simulated_open_positions) = 1
    /\ scenario = 3 =>
         /\ Quoted /\ ~last.raised /\ last.ret.data_source = "mock"

C10_Witness ==
    /\ scenario = 3 /\ mt5_available
    /\ Quoted /\ last.ret.data_source = "mock"
    /\ Len(simulated_open_positions) = 1

Modified == last.op = "modify_order"
Closed == last.op = "close_order"

\* The id of the last modify_order or close_order names no simulated position
\* and the venue, where it was asked, knew neither a position nor an order
\* of that ticket.
IdKnownNowhere ==
    /\ \A i \in 1..Len(simulated_open_positions) :
           ~Matches(simulated_open_positions[i], last.arg.order_id)
    /\ last.calls.positions_get \in {"-", "none"}
    /\ last.calls.orders_get \in {"-", "none"}

\* C11 (as claimed): a modify_order whose id is known neither to the venue
\* nor to the simulated registry returns, in either connection state, a
\* failure of the not-found kind and raises nothing.
C11_UnknownIdIsNotFound ==
    (Modified /\ IdKnownNowhere) =>
        /\ ~last.raised
        /\ ~last.ret.success
        /\ last.ret.data_source \in {"simulated_failed_not_found",
                                     "live_attempt_failed_not_found"}

\* Every value the last modify_order asked for is the value the venue's
\* record (an open position: sl, tp; a pending order: sl, tp, price_open)
\* already holds, and at least one value was asked for.
RequestsCurrentValues ==
    LET np == last.arg.new_params
    IN  /\ Given(np.sl) \/ Given(np.tp) \/ Given(np.price)
        /\ \/ /\ last.calls.positions_get = "found"
              /\ Given(np.sl) => np.sl = VenuePosition.sl
              /\ Given(np.tp) => np.tp = VenuePosition.tp
           \/ /\ last.calls.orders_get = "found"
              /\ Given(np.sl) => np.sl = VenuePendingOrder.sl
              /\ Given(np.tp) => np.tp = VenuePendingOrder.tp
              /\ Given(np.price) => np.price = VenuePendingOrder.price_open

\* C12 (as claimed): connected, a modify_order on a position or pending order
\* of the venue that asks only for the values it already has is accepted
\* and submits nothing to the venue.
C12_NoChangeIsNotSubmitted ==
    (Modified /\ connected /\ RequestsCurrentValues) =>
        /\ ~last.raised
        /\ last.ret.success
        /\ last.calls.order_send = "-"

\* C13 (as claimed): when an accepted modify_order that asks for a stop-loss
\* or take-profit is followed at once by a modify_order with the same id and
\* the same values, the venue knowing the id as before and answering every
\* call put to it, the second call is accepted and leaves the registry of
\* positions as the first call left it.
C13_SecondModifyIsNoOp ==
    [][(/\ Modified /\ ~last.raised /\ last.ret.success
        /\ last'.op = "modify_order" /\ last'.arg = last.arg
        /\ Given(last.arg.new_params.sl) \/ Given(last.arg.new_params.tp)
        /\ last'.calls.positions_get = last.calls.positions_get
        /\ last'.calls.orders_get = last.calls.orders_get
        /\ last'.calls.order_send \in {"-", "result"})
       => (/\ ~last'.raised
           /\ last'.ret.success
           /\ simulated_open_positions' = simulated_open_positions)]_vars

\* The registry new is the registry old after a close of volume v on id in
\* which a matching position stays when v is given and smaller than its size
\* and Remains(size - v) holds, its size then being NewSize(size - v), and
\* every other position is left as it was, in the same order.
RegistryAfterClose(old, new, id, v, Remains(_), NewSize(_)) ==
    LET Partial(i) == v # Absent /\ v < old[i].size /\ Remains(old[i].size - v)
        Stay(i) == ~Matches(old[i], id) \/ Partial(i)
        Rank(i) == Cardinality({ j \in 1..i : Stay(j) })
    IN  /\ Len(new) = Rank(Len(old))
        /\ \A i \in 1..Len(old) :
             Stay(i) =>
               new[Rank(i)] = IF Matches(old[i], id)
                              THEN [old[i] EXCEPT !.size = NewSize(@ - v)]
                              ELSE old[i]

\* The close_order of this step names a position of the registry.
ClosesKnownPosition ==
    /\ last'.op = "close_order"
    /\ \E i \in 1..Len(simulated_open_positions) :
         Matches(simulated_open_positions[i], last'.arg.order_id)

AnyRemainder(r) == TRUE
SameVolume(r) == r
AtLeastMinLot(r) == RoundLots(r) >= MinLot

ClosesMoreThanHeld ==
    /\ last'.op = "close_order"
    /\ last'.arg.size_to_close # Absent
    /\ \/ \E i \in 1..Len(simulated_open_positions) :
            /\ Matches(simulated_open_positions[i], last'.arg.order_id)
            /\ last'.arg.size_to_close > simulated_open_positions[i].size
       \/ /\ last'.calls.positions_get = "found"
          /\ last'.arg.size_to_close > VenuePosition.volume

\* C15 (as claimed): a close_order that asks for more than the volume its
\* target holds fails as insufficient volume and leaves the registry as it
\* was, on the simulated path as on the live one.
C15_OverVolumeIsRefused ==
    [][ClosesMoreThanHeld =>
         /\ ~last'.raised
         /\ ~last'.ret.success
         /\ last'.ret.data_source = "live_attempt_failed_insufficient_volume"
         /\ simulated_open_positions' = simulated_open_positions]_vars

\* C16 (as claimed): get_account_info, get_open_positions and
\* get_pending_orders return, in every connection state and whatever the
\* venue answers, a snapshot or a list, never None and never an exception.
C16_ReadsAlwaysAnswer ==
    last.op \in {"get_account_info", "get_open_positions", "get_pending_orders"}
      => (~last.raised /\ last.ret # NoRet)


Terminal(d) ==
    d.status \in {STATE_USER_APPROVED, STATE_USER_REJECTED, STATE_EXPIRED,
                  STATE_SYSTEM_ACTIONED}

\* The record of the decision the claims speak of: status, actedAtUtc, actorId.
DecisionRecord(d) == <<d.status, d.user_action_timestamp, d.acted_by_user_id>>

GateOperation == Approve \/ Reject \/ CheckExpiry

\* C17: a decision leaves PendingApproval at most once, and then to one of
\* Approved, Rejected or Expired: a step that changes a waiting decision
\* gives it one of these three statuses, and once the status is terminal
\* (Approved, Rejected, Expired or SystemActioned) every approve, reject or
\* checkExpiry, and every other step, leaves status, actedAtUtc and actorId
\* as they were.
C17_TerminalDecisionIsFrozen ==
    [][ /\ (Pending(decision) /\ decision' # decision) =>
              decision'.status \in {STATE_USER_APPROVED, STATE_USER_REJECTED,
                                    STATE_EXPIRED}
        /\ (decision # NoDecision /\ Terminal(decision)) =>
              /\ DecisionRecord(decision') = DecisionRecord(decision)
              /\ decision' = decision
        /\ (GateOperation /\ Terminal(decision)) => ~gate_last'.ok ]_vars

\* An expired decision that an approve came too late for.
C17_Witness ==
    /\ decision.status = STATE_EXPIRED
    /\ gate_last = GateCall("approve", "alice", FALSE)


Expired(d, t) == Pending(d) /\ t > d.approval_expiry_timestamp

\* C18: for a decision in PendingApproval whose expiresAtUtc has passed,
\* checkExpiry(now) reports Expired; every approve after that fails, leaves
\* the status as it is and calls the gateway not once: the invocation count
\* of an expired decision is 0 and stays 0.
C18_ExpiredIsNeverExecuted ==
    /\ [](decision.status = STATE_EXPIRED =>
             gateway_invocations = 0 /\ approving = NoUser)
    /\ [][ /\ (CheckExpiry /\ Expired(decision, now)) =>
                 /\ decision'.status = STATE_EXPIRED
                 /\ gate_last'.ok
                 /\ gateway_invocations' = 0
           /\ (Approve /\ decision.status = STATE_EXPIRED) =>
                 /\ ~gate_last'.ok
                 /\ decision'.status = STATE_EXPIRED
                 /\ approving' = NoUser
                 /\ gateway_invocations' = 0 ]_vars

\* An approve that failed on a decision checkExpiry had found expired.
C18_Witness ==
    /\ decision.status = STATE_EXPIRED
    /\ now > decision.approval_expiry_timestamp
    /\ gate_last = GateCall("approve", "bob", FALSE)
    /\ gateway_invocations = 0


\* C19: approve succeeds only on a decision that is in PendingApproval and
\* not past expiresAtUtc; once no approve is under way, the number of
\* place_order calls made for the decision is 1 if its status is Approved
\* and 0 otherwise (reject and expiry never call the gateway, and the count
\* never exceeds 1); the answer of the gateway, accepted, refused or raised,
\* is attached and leaves the decision as it is.
C19_OneOrderPerApproval ==
    /\ [](/\ gateway_invocations <= 1
          /\ approving = NoUser =>
               gateway_invocations =
                 (IF decision.status = STATE_USER_APPROVED THEN 1 ELSE 0)
          /\ approving # NoUser =>
               decision.status = STATE_USER_APPROVED /\ gateway_invocations = 0)
    /\ [][ /\ (Approve /\ gate_last'.ok) =>
                 /\ Pending(decision)
                 /\ now <= decision.approval_expiry_timestamp
                 /\ decision'.status = STATE_USER_APPROVED
           /\ (Reject \/ CheckExpiry) =>
                 /\ gateway_invocations' = gateway_invocations
                 /\ approving' = approving
                 /\ last' = last
           /\ ApproveInvoke =>
                 /\ decision' = decision
                 /\ last'.op = "place_order"
                 /\ last'.arg = DecisionRequest(decision)
                 /\ order_result' = [raised |-> last'.raised, ret |-> last'.ret] ]_vars

\* An approved decision whose one order the venue refused.
C19_Witness ==
    /\ decision.status = STATE_USER_APPROVED
    /\ approving = NoUser
    /\ gateway_invocations = 1
    /\ last.op = "place_order"
    /\ last.calls.order_send = "result"
    /\ last.calls.retcode \notin {TRADE_RETCODE_DONE, TRADE_RETCODE_PLACED}
    /\ order_result.ret = last.ret


\* The status each operation of the gate gives a decision when it wins.
WinnersStatus ==
    IF Approve THEN STATE_USER_APPROVED
    ELSE IF Reject THEN STATE_USER_REJECTED
    ELSE STATE_EXPIRED

\* The transition the operation asks for is legal at this instant.
LegalNow ==
    \/ (Approve \/ Reject) /\ now < decision.approval_expiry_timestamp
    \/ CheckExpiry /\ now > decision.approval_expiry_timestamp

\* C20: in every interleaving of checkExpiry, approve and reject on one
\* decision in PendingApproval the status changes by one compare-and-set:
\* the first caller whose transition is legal wins and the status becomes
\* the winner's, every caller after the winner fails and changes nothing,
\* and the gateway is invoked only after approve has won: a decision that
\* ends Expired or Rejected has no invocation made or under way.
C20_OneWinner ==
    /\ [](decision.status \in {STATE_EXPIRED, STATE_USER_REJECTED} =>
             gateway_invocations = 0 /\ approving = NoUser)
    /\ []((gateway_invocations > 0 \/ approving # NoUser) =>
             /\ decision.status = STATE_USER_APPROVED
             /\ approving \in {NoUser, decision.acted_by_user_id})
    /\ [][ GateOperation =>
             /\ (Pending(decision) /\ LegalNow) =>
                   /\ gate_last'.ok
                   /\ decision'.status = WinnersStatus
                   /\ decision'.acted_by_user_id = gate_last'.actor
             /\ (decision # NoDecision /\ ~Pending(decision)) =>
                   /\ ~gate_last'.ok
                   /\ decision' = decision
             /\ gate_last'.ok => Pending(decision) /\ ~Pending(decision') ]_vars

\* A reject that lost to an approve by another user, whose order was placed.
C20_Witness ==
    /\ decision.status = STATE_USER_APPROVED
    /\ decision.acted_by_user_id = "alice"
    /\ gate_last = GateCall("reject", "bob", FALSE)
    /\ gateway_invocations = 1


\* The actions that ask for no trade.
StandsAside(d) == d.action \in {"STAND_ASIDE", "HOLD_POSITION"}

\* C21: a decision whose action is Hold or StandAside is created in the
\* terminal status SystemActioned, with no pending-approval timestamp and no
\* expiry timestamp, and in no reachable state is it in PendingApproval.
C21_StandAsideIsSystemActioned ==
    (decision # NoDecision /\ StandsAside(decision)) =>
        /\ decision.status = STATE_SYSTEM_ACTIONED
        /\ ~Pending(decision)
        /\ decision.pending_approval_timestamp = PyNone
        /\ decision.approval_expiry_timestamp = PyNone
        /\ decision.user_action_timestamp = PyNone
        /\ gateway_invocations = 0

\* A StandAside decision made from proposals none of which is a confident
\* BUY, that a user then tried to approve.
C21_Witness ==
    /\ decision # NoDecision
    /\ StandsAside(decision)
    /\ decision.currency_pair = "EURUSD"
    /\ gate_last = GateCall("approve", "alice", FALSE)


\* Caller t leaves its operation in this step.
Finished(t) == threads[t].pc # "idle" /\ threads'[t].pc = "idle"

\* C22: connect and disconnect exclude every order operation under way: an
\* operation that chose the live path at its connectivity check and then
\* calls the venue finds the gateway still connected and the credentials
\* as they were at the check.
C22_NoChangeUnderOrder ==
    [][ \A t \in Threads :
          (Finished(t) /\ threads[t].route = "live" /\ last'.calls # NoCalls) =>
              /\ connected
              /\ credentials = threads[t].seen_credentials ]_vars


\* The first position of a registry that an id names, and whether there is one.
Holds(positions, order_id) ==
    \E i \in 1..Len(positions) : Matches(positions[i], order_id)
Held(positions, order_id) ==
    positions[CHOOSE i \in 1..Len(positions) :
                /\ Matches(positions[i], order_id)
                /\ \A j \in 1..(i - 1) : ~Matches(positions[j], order_id)]

\* C23: overlapping partial closes of one simulated position lose no
\* update: every simulated close of v, with v below the volume the position
\* holds when the close completes and a remainder of at least 0.01 lot,
\* lowers that volume by v, so that two closes of v1 and v2 with
\* v1 + v2 < volume leave volume - v1 - v2.
C23_NoLostClose ==
    [][ \A t \in Threads :
          LET th == threads[t]
              id == th.arg.order_id
              v == th.arg.size_to_close
          IN  ( /\ Finished(t)
                /\ th.op = "close_order"
                /\ th.route = "sim"
                /\ Holds(th.seen_positions, id)
                /\ Holds(simulated_open_positions, id)
                /\ v > 0
                /\ Held(simulated_open_positions, id).size - v >= MinLot ) =>
                  /\ Holds(simulated_open_positions', id)
                  /\ Held(simulated_open_positions', id).size =
                       Held(simulated_open_positions, id).size - v ]_vars


\* A request whose shape is wrong: no symbol, a kind or side the gateway
\* does not know, no volume, or a limit or stop order without a price.
ShapeViolation(req) ==
    \/ req.pair = NoPair
    \/ ~(req.type \in {"market", "limit", "stop"} /\ req.side \in {"buy", "sell"})
    \/ req.size <= 0
    \/ req.type \in {"limit", "stop"} /\ FloatOrZero(req.price) = 0

\* C24 (as claimed): a connected place_order checks the shape of the request
\* before it calls the venue: a request with a wrong shape is refused with
\* no venue call made, is not marked live, and creates no position.
C24_ShapeIsCheckedFirst ==
    /\ []((Placed /\ connected /\ ShapeViolation(last.arg)) =>
            /\ ~last.raised
            /\ ~last.ret.success
            /\ last.ret.data_source # "live"
            /\ last.calls = NoCalls)
    /\ [][(Placed' /\ connected' /\ ShapeViolation(last'.arg)) =>
            simulated_open_positions' = simulated_open_positions]_vars


\* The last call is an order operation that returned a result.
OrderResultReturned ==
    /\ last.op \in {"place_order", "modify_order", "close_order"}
    /\ ~last.raised

\* C25: every result of place_order, modify_order or close_order that is
\* not accepted carries a message that is not empty, and every accepted one
\* carries a source tag (live, simulated, or no_change_needed for a
\* modification that was not sent), on every path.
C25_ResultsAreExplained ==
    OrderResultReturned =>
        /\ ~last.ret.success => last.ret.message # ""
        /\ last.ret.success =>
             last.ret.data_source \in {"live", "simulated", "no_change_needed"}
        /\ last.ret.data_source # ""

\* A close of more than the venue's position holds, refused with a message.
C25_Witness ==
    /\ OrderResultReturned
    /\ last.op = "close_order"
    /\ ~last.ret.success
    /\ last.ret.data_source = "live_attempt_failed_insufficient_volume"
    /\ last.ret.message # ""


\* The result carries an order id: the key order_id is there and not None.
HasOrderId(ret) == ret.order_id # NoId

\* C26 (as claimed): in every result of place_order, modify_order and
\* close_order, live or simulated, an order id is present exactly when the
\* result is accepted.
C26_OrderIdIffAccepted ==
    OrderResultReturned => (HasOrderId(last.ret) <=> last.ret.success)


\* The venue answered the order submission of the last call with a result.
SubmissionAnswered == last.calls.order_send = "result"

\* The last call was handed to the simulation: the gateway was not live, the
\* order submission was lost (None or an exception), or the position lookup
\* of a close was.
HandedToSimulation ==
    \/ ~connected
    \/ ~mt5_available
    \/ last.calls.order_send \in {"none", "raise"}
    \/ last.op = "close_order" /\ last.calls.positions_get \in {"none", "raise"}

\* C27: the source of every order result names the path that made it: a
\* result says live only if the venue answered the order submission of
\* this call, a result says simulated only if the call was handed to the
\* simulation, and nothing the simulation made is tagged live.
C27_SourceIsTruthful ==
    OrderResultReturned =>
        /\ last.ret.data_source = "live" =>
             /\ SubmissionAnswered
             /\ ~HandedToSimulation
             /\ last.ret.success
        /\ last.ret.data_source \in {"simulated", "simulated_failed_not_found"} =>
             /\ HandedToSimulation
             /\ ~SubmissionAnswered
        /\ HandedToSimulation =>
             last.ret.data_source \in {"simulated", "simulated_failed_not_found"}

\* A modification the venue carried out, said to be live.
C27_Witness ==
    /\ OrderResultReturned
    /\ last.op = "modify_order"
    /\ last.ret.data_source = "live"
    /\ last.calls.retcode = TRADE_RETCODE_DONE


\* The last call is a place_order that the simulation answered.
PlacedSimulated ==
    Placed /\ ~last.raised /\ last.ret.data_source = "simulated"

\* C28 (as claimed): after any run of simulated place_order calls the
\* simulated ids are pairwise distinct: no two positions of the registry
\* share a position id or an order id, and the order id a simulated
\* place_order returns is the id of no order placed before; and no
\* simulated id is the decimal form of a venue ticket.
C28_SimulatedIdsAreUnique ==
    /\ [](\A i, j \in 1..Len(simulated_open_positions) :
            i # j => /\ simulated_open_positions[i].id # simulated_open_positions[j].id
                     /\ simulated_open_positions[i].order_id_ref #
                          simulated_open_positions[j].order_id_ref)
    /\ [](\A i \in 1..Len(simulated_open_positions) :
            /\ ~IsIntString(simulated_open_positions[i].id)
            /\ ~IsIntString(simulated_open_positions[i].order_id_ref))
    /\ [](PlacedSimulated => ~IsIntString(last.ret.order_id))
    /\ [][PlacedSimulated' =>
            \A i \in 1..Len(simulated_open_positions) :
                simulated_open_positions[i].order_id_ref # last'.ret.order_id]_vars


\* The volume the registry holds under an id.
RECURSIVE Volume(_, _)
Volume(positions, order_id) ==
    IF positions = <<>> THEN 0
    ELSE (IF Matches(Head(positions), order_id) THEN Head(positions).size ELSE 0)
         + Volume(Tail(positions), order_id)

\* The close_order of this step is a partial close the simulation accepted:
\* its volume is given, positive and below that of a position it names.
AcceptedPartialClose ==
    /\ last'.op = "close_order"
    /\ ~last'.raised
    /\ last'.ret.success
    /\ last'.ret.data_source = "simulated"
    /\ last'.arg.size_to_close # Absent
    /\ last'.arg.size_to_close > 0
    /\ \E i \in 1..Len(simulated_open_positions) :
         /\ Matches(simulated_open_positions[i], last'.arg.order_id)
         /\ last'.arg.size_to_close < simulated_open_positions[i].size

\* C29 (as claimed): a position never holds more than its originating fill:
\* place_order adds a position with the volume of the request and leaves the
\* others as they are, and no modify_order or close_order raises the volume
\* held under any id; and every accepted partial close, of a volume v with
\* 0 < v < remaining volume, strictly lowers the volume of its position.
C29_VolumeOnlyShrinks ==
    [][ /\ last'.op = "place_order" =>
             /\ Len(simulated_open_positions') >= Len(simulated_open_positions)
             /\ SubSeq(simulated_open_positions', 1, Len(simulated_open_positions))
                  = simulated_open_positions
             /\ \A i \in (Len(simulated_open_positions) + 1)
                           ..Len(simulated_open_positions') :
                  simulated_open_positions'[i].size = last'.arg.size
        /\ last'.op \in {"modify_order", "close_order"} =>
             \A id \in ArgIds :
                Volume(simulated_open_positions', id)
                  <= Volume(simulated_open_positions, id)
        /\ AcceptedPartialClose =>
             Volume(simulated_open_positions', last'.arg.order_id)
               < Volume(simulated_open_positions, last'.arg.order_id) ]_vars


\* A venue call of the last modify_order, made while connected, failed: a
\* lookup raised, or the submission answered None or raised.
ModifyCommunicationFailed ==
    /\ Modified
    /\ connected
    /\ \/ last.calls.positions_get = "raise"
       \/ last.calls.orders_get = "raise"
       \/ last.calls.order_send \in {"none", "raise"}

\* C30 (as claimed): when a venue call of a connected modify_order fails,
\* the modification is handed to the simulation for the same id and its
\* result returned; a failed live attempt is reported only for a return code
\* of the venue that is not a success.
C30_ModifyFallsBack ==
    /\ ModifyCommunicationFailed =>
         /\ ~last.raised
         /\ last.ret.data_source \in {"simulated", "simulated_failed_not_found"}
    /\ (Modified /\ ~last.raised /\ last.ret.data_source = "live_attempt_failed") =>
         /\ last.calls.order_send = "result"
         /\ last.calls.retcode # TRADE_RETCODE_DONE
         /\ last.ret.retcode = last.calls.retcode

\* The settings call most recently made, and whether its connect attempt
\* failed (it answered connected = FALSE or let an exception escape).
SettingsCalled == last.op = "set_mt5_credentials"
SettingsConnectFailed == SettingsCalled /\ (last.raised \/ ~last.ret.connected)

\* C31: every settings call that supplies credentials returns a response
\* {connected, message, mt5_library_available} whose connected flag is the
\* gateway's connection state after the call, and a call whose connect
\* attempt fails leaves the gateway disconnected with empty credentials.
C31_SettingsReportsConnection ==
    SettingsCalled =>
        /\ ~last.raised
        /\ last.ret.connected = connected
        /\ (SettingsConnectFailed => ~connected /\ credentials = EmptyCredentials)

\* This step is a place_order that the simulation accepted.
SimulatedPlaceAccepted == PlacedSimulated' /\ last'.ret.success

\* C32: on the simulation path an accepted market place_order appends exactly
\* one position, whose order reference is the returned order id and whose
\* symbol, side and volume are those of the request, and leaves the positions
\* before it as they were; an accepted limit or stop place_order leaves the
\* registry unchanged.
C32_SimulatedPlaceAddsOnePosition ==
    /\ [][(SimulatedPlaceAccepted /\ last'.arg.type = "market") =>
            /\ Len(simulated_open_positions') = Len(simulated_open_positions) + 1
            /\ SubSeq(simulated_open_positions', 1, Len(simulated_open_positions))
                 = simulated_open_positions
            /\ LET pos == simulated_open_positions'[Len(simulated_open_positions')]
               IN  /\ pos.order_id_ref = last'.ret.order_id
                   /\ pos.pair = last'.arg.pair
                   /\ pos.type = (IF last'.arg.side = "buy" THEN ORDER_TYPE_BUY
                                  ELSE ORDER_TYPE_SELL)
                   /\ pos.size = last'.arg.size]_vars
    /\ [][(SimulatedPlaceAccepted /\ last'.arg.type \in {"limit", "stop"}) =>
            simulated_open_positions' = simulated_open_positions]_vars

C32_Witness ==
    /\ PlacedSimulated /\ last.ret.success
    /\ last.arg.type = "market" /\ last.arg.side = "sell"
    /\ Len(simulated_open_positions) = 1
    /\ simulated_open_positions[1].order_id_ref = last.ret.order_id
    /\ simulated_open_positions[1].type = ORDER_TYPE_SELL
    /\ simulated_open_positions[1].pair = "USDJPY"

\* The last call is a modify_order that handed a request to order_send.
ModifySubmitted == Modified /\ last.calls.order_send # "-"

\* What a request must hold for a field the caller gave as v when the
\* target's own value is existing: v if it is given, existing otherwise.
CarriedForward(v, existing) == IF Given(v) THEN v ELSE existing

\* C33: the live path of modify_order asks the venue for an open position of
\* the ticket first and for a pending order only when there is none; the
\* request it submits for a position is a stop-loss/take-profit modification
\* holding exactly the fields the caller gave; the request it submits for a
\* pending order is a full modification in which price, stop-loss and
\* take-profit are the caller's where given and the pending order's own
\* otherwise; a ticket that is neither is answered not-found with nothing
\* submitted.
C33_LiveModifyClassifies ==
    Modified =>
        /\ last.calls.orders_get # "-" => last.calls.positions_get = "none"
        /\ (ModifySubmitted /\ last.calls.positions_get = "found") =>
             last.calls.modify_request =
                 Request(TRADE_ACTION_SLTP,
                         CarriedForward(last.arg.new_params.sl, Absent),
                         CarriedForward(last.arg.new_params.tp, Absent),
                         Absent)
        /\ (ModifySubmitted /\ last.calls.positions_get = "none") =>
             /\ last.calls.orders_get = "found"
             /\ last.calls.modify_request =
                 Request(TRADE_ACTION_MODIFY,
                         CarriedForward(last.arg.new_params.sl, VenuePendingOrder.sl),
                         CarriedForward(last.arg.new_params.tp, VenuePendingOrder.tp),
                         CarriedForward(last.arg.new_params.price,
                                        VenuePendingOrder.price_open))
        /\ (last.calls.positions_get = "none" /\ last.calls.orders_get = "none") =>
             /\ ~last.raised
             /\ ~last.ret.success
             /\ last.ret.data_source = "live_attempt_failed_not_found"
             /\ ~ModifySubmitted

\* A pending order modified with a stop-loss and a price given and no
\* take-profit: the request carries the order's own take-profit.
C33_Witness ==
    /\ ModifySubmitted
    /\ last.calls.positions_get = "none" /\ last.calls.orders_get = "found"
    /\ last.arg.new_params.tp = Absent
    /\ last.calls.modify_request.tp = VenuePendingOrder.tp
    /\ last.calls.modify_request.action = TRADE_ACTION_MODIFY

\* The last call is a close_order that the simulation accepted.
ClosedSimulated ==
    Closed /\ ~last.raised /\ last.ret.success /\ last.ret.data_source = "simulated"

\* C34: after an accepted simulated close the position it names is either
\* gone from the registry or is left with a volume of at least 0.01 lot:
\* a close leaves no position with a volume below 0.01 lot, zero or negative.
C34_CloseLeavesNoDust ==
    ClosedSimulated =>
        \A i \in 1..Len(simulated_open_positions) :
            Matches(simulated_open_positions[i], last.arg.order_id) =>
                simulated_open_positions[i].size >= MinLot

C34_Witness ==
    /\ ClosedSimulated /\ last.arg.size_to_close = 20
    /\ Len(simulated_open_positions) = 1
    /\ Matches(simulated_open_positions[1], last.arg.order_id)
    /\ simulated_open_positions[1].size = MinLot

\* C35: a decision created waiting for approval has its expiry exactly the
\* approval window (5 minutes) after its pending-approval timestamp, which is
\* the time of creation; a created decision has a pending-approval timestamp
\* and an expiry timestamp if and only if it waits for approval; and at
\* creation its user-action timestamp and acting user are None.
C35_CreatedWithFiveMinuteWindow ==
    [][EvaluateProposals =>
         /\ Pending(decision') =>
              /\ decision'.pending_approval_timestamp = now
              /\ decision'.approval_expiry_timestamp =
                   decision'.pending_approval_timestamp + ApprovalWindow
         /\ Pending(decision') <=> decision'.pending_approval_timestamp # PyNone
         /\ Pending(decision') <=> decision'.approval_expiry_timestamp # PyNone
         /\ decision'.user_action_timestamp = PyNone
         /\ decision'.acted_by_user_id = NoUser]_vars

\* A decision created at time 2 that waits for approval until time 7.
C35_Witness ==
    /\ decision # NoDecision /\ Pending(decision)
    /\ gate_last.op = "evaluate_proposals"
    /\ now = 2
    /\ decision.pending_approval_timestamp = 2
    /\ decision.approval_expiry_timestamp = 7

\* The last call is a market place_order that the simulation accepted while
\* the gateway was connected: the venue's answer was lost and a simulated
\* position was opened in its place.
FallbackOpened ==
    /\ PlacedSimulated /\ last.ret.success /\ connected
    /\ last.arg.type = "market"

\* This step modifies the stop-loss of, or closes in full, the order id the
\* last call returned, with the gateway connected before and after.
ActsOnReturnedId ==
    /\ connected /\ connected'
    /\ last'.arg.order_id = last.ret.order_id
    /\ \/ last'.op = "modify_order" /\ Given(last'.arg.new_params.sl)
       \/ last'.op = "close_order" /\ last'.arg.size_to_close = Absent

\* C36 (as claimed): a position opened by a fallback-simulated place_order
\* while connected stays reachable: a modify_order or close_order that uses
\* the returned order id while still connected finds the simulated position
\* and is accepted, rather than failing on the id's format or as not found.
C36_FallbackPositionIsReachable ==
    [][(FallbackOpened /\ last'.op \in {"modify_order", "close_order"}
          /\ ActsOnReturnedId) =>
         /\ ~last'.raised
         /\ last'.ret.success
         /\ last'.ret.data_source = "simulated"]_vars

\* C37 (as claimed): every position of the simulated registry (each was made
\* by an accepted simulated market place_order and no close has removed it)
\* is in the list get_open_positions returns, whatever the connection state
\* at the time of the call.
C37_OpenPositionsListsRegistry ==
    last.op = "get_open_positions" =>
        /\ ~last.raised
        /\ \A i \in 1..Len(simulated_open_positions) :
             \E j \in 1..Len(last.ret.items) :
                 last.ret.items[j] = Tagged(simulated_open_positions[i], "simulated")

\* The positions of a registry that an id does not name, in their order.
Others(positions, order_id) ==
    LET NotNamed(p) == ~Matches(p, order_id)
    IN  SelectSeq(positions, NotNamed)

\* This step is a modify_order or close_order that returned a result.
Answered(op) == last'.op = op /\ ~last'.raised

\* C38: the frame of the simulated registry.  A modify_order or close_order
\* that is not accepted leaves the registry as it was; an accepted
\* modify_order keeps every position in its place and changes nothing but
\* the stop-loss and take-profit of positions the id names; an accepted
\* close_order leaves the positions the id does not name as they were, in
\* their order, and what is left of a position it names differs from it in
\* volume only; connect, disconnect, get_current_price, get_account_info,
\* get_open_positions and get_pending_orders never change the registry.
C38_RegistryFrame ==
    [][ LET old == simulated_open_positions
            new == simulated_open_positions'
            id == last'.arg.order_id
        IN  /\ ((Answered("modify_order") \/ Answered("close_order"))
                  /\ ~last'.ret.success) => new = old
            /\ (Answered("modify_order") /\ last'.ret.success) =>
                 /\ Len(new) = Len(old)
                 /\ \A i \in 1..Len(old) :
                      IF Matches(old[i], id)
                      THEN new[i] = [old[i] EXCEPT !.sl = new[i].sl, !.tp = new[i].tp]
                      ELSE new[i] = old[i]
            /\ (Answered("close_order") /\ last'.ret.success) =>
                 /\ Others(new, id) = Others(old, id)
                 /\ \A j \in 1..Len(new) :
                      Matches(new[j], id) =>
                        \E i \in 1..Len(old) :
                            new[j] = [old[i] EXCEPT !.size = new[j].size]
            /\ last'.op \in {"connect", "disconnect", "get_current_price",
                             "get_account_info", "get_open_positions",
                             "get_pending_orders"} => new = old ]_vars

\* Of two positions that differ in their ids, the first has had its
\* stop-loss moved by an accepted modify_order and the second has not.
C38_Witness ==
    /\ Modified /\ ~last.raised /\ last.ret.success
    /\ last.ret.data_source = "simulated"
    /\ Len(simulated_open_positions) = 2
    /\ Matches(simulated_open_positions[1], last.arg.order_id)
    /\ ~Matches(simulated_open_positions[2], last.arg.order_id)
    /\ simulated_open_positions[1].sl = 107000
    /\ simulated_open_positions[2].sl = 107500

\* Caller t is inside a simulated close_order that read the registry before
\* positions were appended to it, none of which its id names: placements
\* have completed while the close was under way.
PlacedDuringClose(t) ==
    LET th == threads[t]
        seen == th.seen_positions
        now_held == simulated_open_positions
    IN  /\ th.op = "close_order" /\ th.route = "sim" /\ th.pc = "read"
        /\ Len(now_held) > Len(seen)
        /\ SubSeq(now_held, 1, Len(seen)) = seen
        /\ \A i \in (Len(seen) + 1)..Len(now_held) :
               ~Matches(now_held[i], th.arg.order_id)

\* C39 (as claimed): a simulated place_order that overlaps a simulated
\* close_order of another id loses nothing: when the close completes, the
\* registry is the one the close alone would leave of the registry as the
\* placement left it, so it holds the new position and not the closed one.
C39_PlacementSurvivesClose ==
    [][ \A t \in Threads :
          (Finished(t) /\ PlacedDuringClose(t)) =>
              simulated_open_positions' =
                  close_loop(simulated_open_positions, 1,
                             threads[t].arg.order_id,
                             threads[t].arg.size_to_close) ]_vars

\* The last call is a limit or stop place_order that the simulation accepted.
PendingPlacedSimulated ==
    PlacedSimulated /\ last.ret.success /\ last.arg.type \in {"limit", "stop"}

\* get_pending_orders, called now, can return a list with a simulated order.
ListedAsPending ==
    \E o \in get_pending_orders :
        /\ ~o.raised
        /\ \E j \in 1..Len(o.ret.items) : o.ret.items[j].data_source = "simulated"

\* modify_order, called now with that id and a new stop-loss, can be accepted.
FoundByModify(order_id) ==
    \E o \in modify_order(order_id, Params(107000, Absent, Absent)) :
        ~o.raised /\ o.ret.success

\* C40 (as claimed): once a limit or stop place_order has been accepted with
\* source simulated, the order can be retrieved: get_pending_orders lists it
\* or modify_order finds it under the returned order id.
C40_SimulatedPendingIsRetrievable ==
    PendingPlacedSimulated =>
        ListedAsPending \/ FoundByModify(last.ret.order_id)

============================================================================
